---- MODULE Spec2Model ----
(***************************************************************************)
(* Model of the schema-driven endpoint contract system of cdk-zod-agent:   *)
(* the server handler wrapper (initApiHandler), the generated client       *)
(* (buildClientFunction), the request signer (signRequest) and the         *)
(* transport invoker (makeIAMRequest).                                     *)
(*                                                                         *)
(* JavaScript values are tagged records; a string is a sequence of         *)
(* lexemes so that JSON text can be built and decoded.                     *)
(***************************************************************************)
EXTENDS Integers, Sequences, FiniteSets, TLC

(***************************************************************************)
(* Bounds of the model.                                                    *)
(***************************************************************************)
\* numbers that occur inside request and response payloads are 0..MaxNum
MaxNum == 1

(***************************************************************************)
(* JavaScript values.                                                      *)
(***************************************************************************)
Undefined == [t |-> "undefined"]
Null == [t |-> "null"]
Bool(b) == [t |-> "boolean", b |-> b]
Num(n) == [t |-> "number", n |-> n]
Str(s) == [t |-> "string", s |-> s]
Arr(a) == [t |-> "array", a |-> a]
Obj(f) == [t |-> "object", f |-> f]

\* the empty object literal {}
EmptyObj == Obj([k \in {} |-> Undefined])

\* JavaScript truthiness, as used by `x ? a : b`, `x || y`, `!x` and `x && y`
Truthy(v) ==
  CASE v.t = "undefined" -> FALSE
    [] v.t = "null" -> FALSE
    [] v.t = "boolean" -> v.b
    [] v.t = "number" -> v.n # 0
    [] v.t = "string" -> v.s # <<>>
    [] OTHER -> TRUE

\* x || y
Or(x, y) == IF Truthy(x) THEN x ELSE y

(***************************************************************************)
(* JSON.stringify and JSON.parse.                                          *)
(***************************************************************************)
DQ == "\""

\* property names in the order in which the model's object literals list them
KeyOrder ==
  << "name", "alias", "powers", "weaknesses", "active", "rescues",
     "hero", "rescue", "location", "date", "description", "details",
     "heroes", "city", "status", "success", "message", "error", "extra" >>

Keys == {KeyOrder[i] : i \in 1..Len(KeyOrder)}

RECURSIVE JSONtext(_)
RECURSIVE JSONmembers(_, _, _)
RECURSIVE JSONelements(_, _)

\* the members of an object, in key order; a property whose value is
\* undefined is left out, as JSON.stringify does
JSONmembers(f, i, first) ==
  IF i > Len(KeyOrder) THEN <<>>
  ELSE IF KeyOrder[i] \in DOMAIN f /\ f[KeyOrder[i]].t # "undefined"
       THEN (IF first THEN <<>> ELSE <<",">>)
            \o <<DQ, KeyOrder[i], DQ, ":">> \o JSONtext(f[KeyOrder[i]])
            \o JSONmembers(f, i + 1, FALSE)
       ELSE JSONmembers(f, i + 1, first)

\* the elements of an array; an undefined element is written as null
JSONelements(a, i) ==
  IF i > Len(a) THEN <<>>
  ELSE (IF i = 1 THEN <<>> ELSE <<",">>)
       \o (IF a[i].t = "undefined" THEN <<"null">> ELSE JSONtext(a[i]))
       \o JSONelements(a, i + 1)

\* the JSON text of a value other than undefined
JSONtext(v) ==
  CASE v.t = "null" -> <<"null">>
    [] v.t = "boolean" -> IF v.b THEN <<"true">> ELSE <<"false">>
    [] v.t = "number" -> <<ToString(v.n)>>
    [] v.t = "string" -> <<DQ>> \o v.s \o <<DQ>>
    [] v.t = "array" -> <<"[">> \o JSONelements(v.a, 1) \o <<"]">>
    [] v.t = "object" -> <<"{">> \o JSONmembers(v.f, 1, TRUE) \o <<"}">>

\* JSON.stringify(v): a string, or undefined when v is undefined
JSONstringify(v) == IF v.t = "undefined" THEN Undefined ELSE Str(JSONtext(v))

(***************************************************************************)
(* The values the model draws payloads from.                               *)
(***************************************************************************)
StrEmpty == Str(<<>>)
StrA == Str(<<"A">>)
\* a string whose text is a digit, so that it reads as a JSON number
StrDigit == Str(<<"1">>)

Prims ==
  {Null, Bool(TRUE), StrEmpty, StrA, StrDigit}
    \cup {Num(n) : n \in 0..MaxNum}

\* objects with an optional property name, and an optional property extra
\* that no schema of the model knows
SmallFieldVals == {StrA} \cup {Num(n) : n \in 0..MaxNum}
SmallObjects ==
  UNION {{Obj(f) : f \in {g \in [ks -> SmallFieldVals] :
                            "extra" \in ks => g["extra"] = Num(0)}} :
           ks \in SUBSET {"name", "extra"}}

Rec2(k1, v1, k2, v2) == Obj([k \in {k1, k2} |-> IF k = k1 THEN v1 ELSE v2])
Rec3(k1, v1, k2, v2, k3, v3) ==
  Obj([k \in {k1, k2, k3} |-> IF k = k1 THEN v1 ELSE IF k = k2 THEN v2 ELSE v3])

\* { name: "A", powers: ["A"], active: true }
SampleHero == Rec3("name", StrA, "powers", Arr(<<StrA>>), "active", Bool(TRUE))
\* { hero: "A", location: "A" }
SampleRescue == Rec2("hero", StrA, "location", StrA)
\* { hero: <SampleHero>, success: true }
SampleAddHeroResponse == Rec2("hero", SampleHero, "success", Bool(TRUE))
\* { rescues: [<SampleRescue>] }
SampleListResponse == Obj([k \in {"rescues"} |-> Arr(<<SampleRescue>>)])
\* { heroes: [] }
SampleSearchResponse == Obj([k \in {"heroes"} |-> Arr(<<>>)])

Samples ==
  {SampleHero, SampleRescue, SampleAddHeroResponse, SampleListResponse,
   SampleSearchResponse}

\* the JSON-representable values of the model
JsonValues == Prims \cup SmallObjects \cup Samples

JSONparse_Lenient(s) ==
  LET vs == {v \in JsonValues : JSONtext(v) = s}
  IN IF vs = {} THEN [ok |-> TRUE, v |-> EmptyObj]
     ELSE [ok |-> TRUE, v |-> CHOOSE v \in vs : TRUE]

\* JSON.parse(s): the value whose JSON text is s, or a SyntaxError when s is
\* the text of no value
JSONparse(s) ==
  LET vs == {v \in JsonValues : JSONtext(v) = s}
  IN IF vs = {} THEN [ok |-> FALSE, v |-> Undefined]
     ELSE [ok |-> TRUE, v |-> CHOOSE v \in vs : TRUE]

(***************************************************************************)
(* Zod schemas: z.null(), z.string(), z.number(), z.boolean(), z.enum(),  *)
(* z.array(s) and z.object(shape); a shape entry may be .optional().       *)
(***************************************************************************)
NoSchema == [k |-> "none"]
ZNull == [k |-> "null"]
ZString == [k |-> "string"]
\* z.number().int().nonnegative()
ZNonNegInt == [k |-> "nonnegint"]
ZBoolean == [k |-> "boolean"]
ZEnum(vals) == [k |-> "enum", vals |-> vals]
ZArray(s) == [k |-> "array", of |-> s]
ZObject(shape) == [k |-> "object", shape |-> shape]
Req(s) == [s |-> s, opt |-> FALSE]
Opt(s) == [s |-> s, opt |-> TRUE]

RECURSIVE ZodAccepts(_, _)
\* schema.safeParse(v).success
ZodAccepts(schema, v) ==
  CASE schema.k = "null" -> v.t = "null"
    [] schema.k = "string" -> v.t = "string"
    [] schema.k = "nonnegint" -> v.t = "number" /\ v.n >= 0
    [] schema.k = "boolean" -> v.t = "boolean"
    [] schema.k = "enum" -> v.t = "string" /\ v.s \in schema.vals
    [] schema.k = "array" ->
         v.t = "array" /\ \A i \in 1..Len(v.a) : ZodAccepts(schema.of, v.a[i])
    [] schema.k = "object" ->
         /\ v.t = "object"
         /\ \A key \in DOMAIN schema.shape :
              IF key \in DOMAIN v.f /\ v.f[key].t # "undefined"
              THEN ZodAccepts(schema.shape[key].s, v.f[key])
              ELSE schema.shape[key].opt

RECURSIVE ZodOutput(_, _)
\* the value schema.parse(v) returns for a value the schema accepts: an
\* object keeps only the keys of the shape (unknown keys are stripped)
ZodOutput(schema, v) ==
  CASE schema.k = "array" ->
         Arr([i \in 1..Len(v.a) |-> ZodOutput(schema.of, v.a[i])])
    [] schema.k = "object" ->
         Obj([key \in {x \in DOMAIN schema.shape :
                         x \in DOMAIN v.f /\ v.f[x].t # "undefined"} |->
                ZodOutput(schema.shape[key].s, v.f[key])])
    [] OTHER -> v

\* schema.parse(v): the parsed value, or a thrown ZodError
ZodParse(schema, v) ==
  IF ZodAccepts(schema, v) THEN [ok |-> TRUE, v |-> ZodOutput(schema, v)]
  ELSE [ok |-> FALSE, v |-> Undefined]

(***************************************************************************)
(* The schemas of the package (lib/package/interfaces).                     *)
(***************************************************************************)
Shape2(k1, e1, k2, e2) == [k \in {k1, k2} |-> IF k = k1 THEN e1 ELSE e2]

heroShape ==
  [k \in {"name", "alias", "powers", "weaknesses", "active", "rescues"} |->
     CASE k = "name" -> Req(ZString)
       [] k = "alias" -> Opt(ZString)
       [] k = "powers" -> Req(ZArray(ZString))
       [] k = "weaknesses" -> Opt(ZArray(ZString))
       [] k = "active" -> Req(ZBoolean)
       [] k = "rescues" -> Opt(ZNonNegInt)]

heroSchema == ZObject(heroShape)

\* heroSchema.omit({ rescues: true })
AddHeroRequestSchema ==
  ZObject([k \in DOMAIN heroShape \ {"rescues"} |-> heroShape[k]])

rescueSchema ==
  ZObject([k \in {"hero", "location", "date", "description", "details"} |->
             IF k \in {"hero", "location"} THEN Req(ZString) ELSE Opt(ZString)])

AddRescueRequestSchema == rescueSchema

SearchHeroesRequestSchema ==
  ZObject(Shape2("city", Opt(ZString),
                 "status", Opt(ZEnum({<<"active">>, <<"retired">>}))))

AddHeroResponseSchema ==
  ZObject([k \in {"hero", "success", "message", "error"} |->
             CASE k = "hero" -> Req(heroSchema)
               [] k = "success" -> Opt(ZBoolean)
               [] OTHER -> Opt(ZString)])

AddRescueResponseSchema ==
  ZObject([k \in {"rescue", "hero", "success", "message", "error"} |->
             CASE k = "rescue" -> Req(rescueSchema)
               [] k = "hero" -> Opt(heroSchema)
               [] k = "success" -> Opt(ZBoolean)
               [] OTHER -> Opt(ZString)])

ListHeroRescuesResponseSchema ==
  ZObject([k \in {"rescues"} |-> Req(ZArray(rescueSchema))])

SearchHeroesResponseSchema ==
  ZObject([k \in {"heroes"} |-> Req(ZArray(heroSchema))])

(***************************************************************************)
(* The endpoint registry (lib/package/client/endpoints.ts).                *)
(***************************************************************************)
\* defineZodEndpoint(args).endpoint; a path is a sequence of lexemes: "/",
\* "{", "}" and names
defineZodEndpoint(path, method, request, response, description) ==
  [path |-> path, method |-> method,
   requestSchema |-> request, responseSchema |-> response,
   description |-> description]

\* type HttpMethod = "GET" | "POST" | "PUT" | "DELETE"
GET == Str(<<"GET">>)
POST == Str(<<"POST">>)
PUT == Str(<<"PUT">>)
DELETE == Str(<<"DELETE">>)

EndpointNames == {"listHeroRescues", "addHero", "addRescue", "searchHeroes"}

endpoints ==
  [key \in EndpointNames |->
     CASE key = "listHeroRescues" ->
            defineZodEndpoint(<<"/", "heroes", "/", "{", "hero", "}", "/",
                                "rescues">>, GET,
                              ZNull, ListHeroRescuesResponseSchema,
                              Str(<<"Get a list of rescues performed by a specific hero. The hero is specified in the path parameter.">>))
       [] key = "addHero" ->
            defineZodEndpoint(<<"/", "heroes">>, POST,
                              AddHeroRequestSchema, AddHeroResponseSchema,
                              Str(<<"Add a new hero to the system. The hero details are provided in the request body.">>))
       [] key = "addRescue" ->
            defineZodEndpoint(<<"/", "heroes", "/", "{", "hero", "}", "/",
                                "rescues">>, POST,
                              AddRescueRequestSchema, AddRescueResponseSchema,
                              Str(<<"Add a rescue performed by a specific hero. The hero is specified in the path parameter, and the rescue details are provided in the request body.">>))
       [] key = "searchHeroes" ->
            defineZodEndpoint(<<"/", "heroes", "/", "search">>, POST,
                              SearchHeroesRequestSchema,
                              SearchHeroesResponseSchema,
                              Str(<<"Search for heroes based on various criteria. The search parameters are provided in the request body.">>))]

(***************************************************************************)
(* State.                                                                  *)
(***************************************************************************)
VARIABLES
  options,        \* the options initApiHandler was called with
  event,          \* the inbound APIGatewayEvent of the current invocation
  srvPc,          \* "idle", "inHandler" (awaiting apiHandler) or "done"
  handlerCalls,   \* how often apiHandler was invoked in this invocation
  handlerArgs,    \* the argument bundle apiHandler was invoked with
  handlerOutcome, \* how the apiHandler call settled, with what it resolved to
  handlerOutput,  \* the variable handlerOutput of the wrapped function
  srvResult       \* what the wrapped function returned or threw

VARIABLES
  endpoint,       \* the endpoint definition the client function is bound to
  env,            \* process.env of the client process
  cliPc,          \* "idle", "signing", "fetching" or "done"
  caller,         \* "client" (buildClientFunction) or "direct" (makeIAMRequest)
  params,         \* the params the client function was invoked with
  iamArgs,        \* the arguments buildClientFunction hands to iamRequest
  args,           \* the arguments of the makeIAMRequest call
  request,        \* the HttpRequest makeIAMRequest built
  signedRequest,  \* what signRequest resolved to
  ssoCalls,       \* how often the SSO credential provider was consulted
  signCount,      \* how often SignatureV4.sign was called
  fetchCount,     \* how often fetch was called
  res,            \* the Response fetch resolved to
  response,       \* what iamRequest resolved to
  mkResult,       \* what makeIAMRequest returned or threw
  logged,         \* the messages the client function logged with console.error
  cliResult       \* what the client function returned or threw

srvVars ==
  <<options, event, srvPc, handlerCalls, handlerArgs, handlerOutcome,
    handlerOutput, srvResult>>

cliVars ==
  <<endpoint, env, cliPc, caller, params, iamArgs, args, request,
    signedRequest, ssoCalls, signCount, fetchCount, res, response, mkResult,
    logged, cliResult>>

VARIABLES
  registry,       \* the endpoints map: the endpoint definition of each key
  defineArgs,     \* the arguments of the latest defineZodEndpoint call
  defineOutcome,  \* what the latest defineZodEndpoint call returned or threw
  client,         \* what createApiClient returned: the function of each key
  regPc           \* "defining" (the map is being written) or "built"

regVars == <<registry, defineArgs, defineOutcome, client, regPc>>

VARIABLES
  table,               \* the items of the DynamoDB table
  cachedDynamoClient,  \* per lambda process: the module variable of dynamo.ts
  constructed,         \* per lambda process: how many clients were constructed
  invs,                \* the apiHandler invocations, in the order they began
  tblPc                \* "serving", or "off"

tblVars == <<table, cachedDynamoClient, constructed, invs, tblPc>>

VARIABLES
  props,          \* the LambdaProps the construct is created with
  fn,             \* the constant fn of the constructor: the NodejsFunction
  thisFn,         \* the field this.fn of the construct
  entries,        \* what is left of Object.entries(tables) in addDynamoAccess
  thrown,         \* the call that threw out of the constructor
  cdkPc           \* "new", "forEach", "constructed", "threw", or "off"

cdkVars == <<props, fn, thisFn, entries, thrown, cdkPc>>

vars == <<srvVars, cliVars, regVars, tblVars, cdkVars>>

(***************************************************************************)
(* The server handler wrapper (helpers/initApiHandler.ts).                 *)
(***************************************************************************)
\* z.object({ name: z.string() }), a schema in the style of the example in
\* the documentation of initApiHandler
ZNameObject == ZObject([k \in {"name"} |-> Req(ZString)])

\* initApiHandler({ apiHandler, inputSchema, outputSchema })
initApiHandler(name, inputSchema, outputSchema) ==
  [name |-> name, inputSchema |-> inputSchema, outputSchema |-> outputSchema]

\* export const handler = initApiHandler({ apiHandler }) of the four lambdas
handler(key) == initApiHandler(key, NoSchema, NoSchema)

\* the wrappers the model constructs: the four lambdas of the registry and
\* wrappers with every combination of an input and an output schema
WrapperOptions ==
  {handler(key) : key \in EndpointNames}
    \cup {initApiHandler("custom", i, o) :
            i \in {NoSchema, ZNameObject},
            o \in {NoSchema, ZString, ZNameObject}}

\* a body that is not JSON text
NotJson == Str(<<"{">>)

\* event.body is a string or null
EventBodies ==
  {Null, StrEmpty, NotJson} \cup {Str(JSONtext(v)) : v \in JsonValues}

SomeMapping(k) == Obj([x \in {k} |-> StrA])

\* the parts of an event other than its body: each mapping is absent (null)
\* in some and present in others
Envelopes ==
  {[headers |-> Null, httpMethod |-> "POST", path |-> "/heroes",
    pathParameters |-> Null, queryStringParameters |-> Null],
   [headers |-> SomeMapping("sourceFn"), httpMethod |-> "GET",
    path |-> "/heroes/A/rescues",
    pathParameters |-> SomeMapping("hero"),
    queryStringParameters |-> SomeMapping("city")],
   [headers |-> Null, httpMethod |-> "GET", path |-> "/heroes/A/rescues",
    pathParameters |-> SomeMapping("hero"), queryStringParameters |-> Null],
   [headers |-> SomeMapping("sourceFn"), httpMethod |-> "POST",
    path |-> "/heroes",
    pathParameters |-> Null, queryStringParameters |-> SomeMapping("city")]}

Events ==
  {[body |-> b, headers |-> e.headers, httpMethod |-> e.httpMethod,
    path |-> e.path, pathParameters |-> e.pathParameters,
    queryStringParameters |-> e.queryStringParameters] :
     b \in EventBodies, e \in Envelopes}

NoEvent == [none |-> TRUE]
NoArgs == [none |-> TRUE]
NoResult == [kind |-> "none"]
Returned(r) == [kind |-> "returned", value |-> r]
Threw(e) == [kind |-> "threw", error |-> e]
NotSettled == [kind |-> "none"]
Rejected == [kind |-> "threw"]
Resolved(out) == [kind |-> "resolved", out |-> out]

\* { statusCode: 500, body: "Internal server error" }
InternalServerError ==
  [statusCode |-> Num(500), body |-> Str(<<"Internal server error">>)]

\* { statusCode: 500, body: "Unknown error" }
UnknownError == [statusCode |-> Num(500), body |-> Str(<<"Unknown error">>)]

ParseBody_NoDefault(ev) ==
  IF ev.body = Null THEN [ok |-> TRUE, v |-> Null] ELSE JSONparse(ev.body.s)

\* const body = event.body ? JSON.parse(event.body) : {}
ParseBody(ev) ==
  IF Truthy(ev.body) THEN JSONparse(ev.body.s)
  ELSE [ok |-> TRUE, v |-> EmptyObj]

ValidateInput_NoThrow(opts, ev, body) == [ok |-> TRUE, v |-> body]

\* if (inputSchema && event.body) validatedInput = inputSchema.parse(body)
\* else validatedInput = body
ValidateInput(opts, ev, body) ==
  IF opts.inputSchema # NoSchema /\ Truthy(ev.body)
  THEN ZodParse(opts.inputSchema, body)
  ELSE [ok |-> TRUE, v |-> body]

HandlerArgs_Raw(ev, validatedInput) ==
  [body |-> validatedInput,
   headers |-> ev.headers,
   method |-> ev.httpMethod,
   path |-> ev.path,
   pathParameters |-> ev.pathParameters,
   queryStringParameters |-> ev.queryStringParameters]

\* the argument bundle of the apiHandler call
HandlerArgs(ev, validatedInput) ==
  [body |-> validatedInput,
   headers |-> Or(ev.headers, EmptyObj),
   method |-> ev.httpMethod,
   path |-> ev.path,
   pathParameters |-> Or(ev.pathParameters, EmptyObj),
   queryStringParameters |-> Or(ev.queryStringParameters, EmptyObj)]

\* what apiHandler can resolve to: nothing, or { data, headers?, statusCode? }
StatusCodes == {Undefined, Num(0), Num(200), Num(400)}
HandlerOutputs ==
  [data : JsonValues \cup {Undefined},
   headers : {Undefined, SomeMapping("extra")},
   statusCode : StatusCodes]

ValidatesOutput_ObjectsOnly(opts, out) ==
  opts.outputSchema # NoSchema /\ out # Undefined /\ out.data.t = "object"

\* does the wrapper parse the handler's data with the output schema?
\* outputSchema && handlerOutput && typeof handlerOutput.data !== "string"
ValidatesOutput(opts, out) ==
  opts.outputSchema # NoSchema /\ out # Undefined /\ out.data.t # "string"

FinalResponse_Unserialised(out) ==
  [body |-> out.data,
   headers |-> out.headers,
   statusCode |-> Or(out.statusCode, Num(200))]

\* the response built from a handler output that is not falsy
FinalResponse(out) ==
  [body |-> IF out.data.t = "string" THEN out.data ELSE JSONstringify(out.data),
   headers |-> out.headers,
   statusCode |-> Or(out.statusCode, Num(200))]

\* the part of the wrapped function after the try/catch
AfterTry(out) ==
  IF out = Undefined THEN Returned(UnknownError)
  ELSE Returned(FinalResponse(out))

Catch_Rethrow(out) == Threw("Error in API handler")

\* catch (err) { console.error(...) }: the error is logged and swallowed, and
\* control continues after the try with handlerOutput as it was
Catch(out) == AfterTry(out)

\* the wrapped function up to the call of apiHandler
Receive(ev) ==
  /\ srvPc = "idle"
  /\ event' = ev
  /\ handlerOutput' = Undefined
  /\ handlerOutcome' = NotSettled
  /\ LET body == ParseBody(ev)
         validatedInput ==
           IF body.ok THEN ValidateInput(options, ev, body.v) ELSE body
     IN IF validatedInput.ok
        THEN /\ srvPc' = "inHandler"
             /\ handlerCalls' = 1
             /\ handlerArgs' = HandlerArgs(ev, validatedInput.v)
             /\ srvResult' = NoResult
        ELSE \* JSON.parse or inputSchema.parse threw: caught and logged
             /\ srvPc' = "done"
             /\ handlerCalls' = 0
             /\ handlerArgs' = NoArgs
             /\ srvResult' = Catch(Undefined)
  /\ UNCHANGED options

\* apiHandler rejects: the catch block logs, handlerOutput stays undefined
HandlerThrows ==
  /\ srvPc = "inHandler"
  /\ srvPc' = "done"
  /\ handlerOutcome' = Rejected
  /\ srvResult' = Catch(handlerOutput)
  /\ UNCHANGED <<options, event, handlerCalls, handlerArgs, handlerOutput>>

\* apiHandler resolves to out: output validation and serialisation
HandlerReturns(out) ==
  /\ srvPc = "inHandler"
  /\ srvPc' = "done"
  /\ handlerOutcome' = Resolved(out)
  /\ IF ValidatesOutput(options, out)
     THEN LET parsed == ZodParse(options.outputSchema, out.data)
          IN IF parsed.ok
             THEN /\ handlerOutput' = [out EXCEPT !.data = parsed.v]
                  /\ srvResult' = AfterTry(handlerOutput')
             ELSE /\ handlerOutput' = out
                  /\ srvResult' = Returned(InternalServerError)
     ELSE /\ handlerOutput' = out
          /\ srvResult' = AfterTry(out)
  /\ UNCHANGED <<options, event, handlerCalls, handlerArgs>>

(***************************************************************************)
(* The request signer and the transport invoker (helpers/iamRequest.ts).   *)
(***************************************************************************)
NoValue == [none |-> TRUE]

Domain == Str(<<"https://api.example.com/prod">>)

\* process.env: each variable is set or not
Envs ==
  [AWS_ACCESS_KEY_ID : {Undefined, StrA},
   AWS_SECRET_ACCESS_KEY : {Undefined, StrA},
   AWS_SESSION_TOKEN : {Undefined},
   AWS_PROFILE : {Undefined, StrA},
   AWS_DEFAULT_REGION : {Undefined, Str(<<"eu-west-1">>)},
   AWS_LAMBDA_FUNCTION_NAME : {Undefined}]

RequestHeaders_AlwaysContentType(a, e) ==
  LET own == [h \in {"host", "sourceFn", "Content-Type"} |->
                CASE h = "host" -> Str(<<"api.example.com">>)
                  [] h = "Content-Type" -> Str(<<"application/json">>)
                  [] h = "sourceFn" ->
                       Or(e.AWS_LAMBDA_FUNCTION_NAME, StrEmpty)]
      theirs == IF a.headers = Undefined THEN [h \in {} |-> Undefined]
                ELSE a.headers.f
  IN [h \in DOMAIN own \cup DOMAIN theirs |->
        IF h \in DOMAIN theirs THEN theirs[h] ELSE own[h]]

\* the headers of the HttpRequest: host, Content-Type when args.body is
\* truthy, sourceFn, and then the caller's headers spread over them
RequestHeaders(a, e) ==
  LET own == [h \in {"host", "sourceFn"}
                    \cup (IF Truthy(a.body) THEN {"Content-Type"} ELSE {}) |->
                CASE h = "host" -> Str(<<"api.example.com">>)
                  [] h = "Content-Type" -> Str(<<"application/json">>)
                  [] h = "sourceFn" ->
                       Or(e.AWS_LAMBDA_FUNCTION_NAME, StrEmpty)]
      theirs == IF a.headers = Undefined THEN [h \in {} |-> Undefined]
                ELSE a.headers.f
  IN [h \in DOMAIN own \cup DOMAIN theirs |->
        IF h \in DOMAIN theirs THEN theirs[h] ELSE own[h]]

\* new HttpRequest({ hostname, method, headers, path, body, query })
HttpRequest(a, e) ==
  [method |-> Or(a.method, GET),
   headers |-> RequestHeaders(a, e),
   path |-> a.path,
   body |-> a.body,
   query |-> a.query]

\* the static credentials signRequest reads from the environment
StaticCredentials(e) ==
  [accessKeyId |-> e.AWS_ACCESS_KEY_ID,
   secretAccessKey |-> e.AWS_SECRET_ACCESS_KEY,
   sessionToken |-> e.AWS_SESSION_TOKEN]

\* fromSSO({ profile })(): the credentials the SSO provider resolves to for
\* a profile
fromSSO(profile) ==
  [accessKeyId |-> Str(<<"sso key of ">> \o profile.s),
   secretAccessKey |-> Str(<<"sso secret of ">> \o profile.s),
   sessionToken |-> Str(<<"sso token of ">> \o profile.s)]

NeedsSSO_AccessKeyOnly(e) == ~Truthy(StaticCredentials(e).accessKeyId)

\* !credentials.accessKeyId || !credentials.secretAccessKey
NeedsSSO(e) ==
  ~Truthy(StaticCredentials(e).accessKeyId)
    \/ ~Truthy(StaticCredentials(e).secretAccessKey)

\* new SignatureV4({ service, region, credentials, sha256 })
SignatureV4(e, credentials) ==
  [service |-> "execute-api",
   region |-> Or(e.AWS_DEFAULT_REGION, StrEmpty),
   credentials |-> credentials]

\* the response statuses and bodies the remote service answers with
Statuses == {200, 404, 500}
StatusText(st) ==
  CASE st = 200 -> "OK" [] st = 404 -> "Not Found"
    [] OTHER -> "Internal Server Error"
ResponseValues == {Obj([k \in {"name"} |-> StrA]), SampleAddHeroResponse}
Responses ==
  {[status |-> st, statusText |-> StatusText(st), text |-> JSONtext(v)] :
     st \in Statuses, v \in ResponseValues}

\* res.ok
Ok(r) == r.status >= 200 /\ r.status <= 299

AllowedStatusCodes_DefaultOnly(a) == Arr(<<Num(404)>>)

\* const allowedStatusCodes = args.allowedStatusCodes || [404]
AllowedStatusCodes(a) == Or(a.allowedStatusCodes, Arr(<<Num(404)>>))

\* allowedStatusCodes.includes(res.status)
Includes(list, st) == \E i \in 1..Len(list.a) : list.a[i] = Num(st)

\* Error(`Error making IAM request - status: ${res.status}
\*        (${res.statusText}), reason: ${text}`)
StatusError(r) ==
  <<"Error making IAM request - status: ", ToString(r.status), " (",
    r.statusText, "), reason: ">> \o r.text

\* the part of makeIAMRequest after fetch resolved to r
CheckStatus(a, r) ==
  IF ~Ok(r) /\ ~Includes(AllowedStatusCodes(a), r.status)
  THEN Threw(StatusError(r))
  ELSE Returned(r)

(***************************************************************************)
(* helpers/iamRequest.ts exports iamRequest, which the client functions    *)
(* call: it delegates to makeIAMRequest and hands back the decoded body.   *)
(***************************************************************************)
\* the makeIAMRequest arguments of an iamRequest call
IamRequestArgs(a) == a @@ [allowedStatusCodes |-> Undefined]

\* what iamRequest resolves to for a response of makeIAMRequest
IamRequestResponse(r) == JSONparse(r.text).v

(***************************************************************************)
(* The generated client (helpers/endpoints.ts, buildClientFunction).       *)
(***************************************************************************)
\* the endpoints client functions are built for: the registry, GET, DELETE
\* and PUT endpoints without schemas and with z.object({ name }), and an
\* endpoint whose path names the same parameter twice
ClientEndpoints ==
  {[key |-> k] @@ endpoints[k] : k \in EndpointNames}
    \cup {[key |-> "custom", path |-> <<"items", "/", "{", "hero", "}">>,
           method |-> m, requestSchema |-> sch, responseSchema |-> sch] :
            m \in {GET, DELETE, PUT},
            sch \in {NoSchema, ZNameObject}}
    \cup {[key |-> "custom",
           path |-> <<"/", "{", "hero", "}", "/", "to", "/", "{", "hero", "}">>,
           method |-> PUT, requestSchema |-> NoSchema,
           responseSchema |-> NoSchema]}

\* the bodies a caller supplies; undefined when the caller supplies none
ClientBodies ==
  {Undefined, Null, Num(0), StrEmpty, StrA, EmptyObj, SampleHero}
    \cup {Obj(f) : f \in [{"name"} -> SmallFieldVals]}

Params ==
  [body : ClientBodies,
   pathParameters : {Undefined, Obj([k \in {"hero"} |-> Str(<<"a", "/", "b">>)])},
   headers : {Undefined, SomeMapping("Content-Type")},
   query : {Undefined}]

\* endpoint.requestSchema && params.body
ValidatesBody(ep, p) == ep.requestSchema # NoSchema /\ Truthy(p.body)

\* Error(`Validation error in apiClient.${key}: ...`)
ValidationError(ep) == <<"Validation error in apiClient.", ep.key>>

\* `Response validation error in apiClient.${key}: ...`
ResponseValidationError(ep) ==
  <<"Response validation error in apiClient.", ep.key>>

\* encodeURIComponent, lexeme by lexeme
EncodeLexeme(c) ==
  CASE c = "/" -> "%2F" [] c = "{" -> "%7B" [] c = "}" -> "%7D" [] OTHER -> c
encodeURIComponent(v) == [i \in 1..Len(v) |-> EncodeLexeme(v[i])]

RECURSIVE Replace(_, _, _)
\* url.replace(`{${param}}`, value): the first occurrence only
Replace(url, param, value) ==
  IF Len(url) < 3 THEN url
  ELSE IF url[1] = "{" /\ url[2] = param /\ url[3] = "}"
       THEN value \o SubSeq(url, 4, Len(url))
       ELSE <<url[1]>> \o Replace(Tail(url), param, value)

RECURSIVE ReplaceAll(_, _, _)
\* for (const [param, value] of Object.entries(pathParameters)) url = ...
ReplaceAll(url, pathParameters, i) ==
  IF i > Len(KeyOrder) THEN url
  ELSE IF KeyOrder[i] \in DOMAIN pathParameters
       THEN ReplaceAll(Replace(url, KeyOrder[i],
                               encodeURIComponent(pathParameters[KeyOrder[i]].s)),
                       pathParameters, i + 1)
       ELSE ReplaceAll(url, pathParameters, i + 1)

\* the url of the request: the path template, with a leading "/", with the
\* path parameters substituted
BuildUrl(ep, p) ==
  LET url == IF ep.path # <<>> /\ ep.path[1] = "/" THEN ep.path
             ELSE <<"/">> \o ep.path
  IN ReplaceAll(url, Or(p.pathParameters, EmptyObj).f, 1)

\* the arguments of the iamRequest call
IamArgs(ep, p) ==
  [domain |-> Domain,
   method |-> ep.method,
   headers |-> p.headers,
   path |-> Str(BuildUrl(ep, p)),
   query |-> p.query,
   body |-> IF Truthy(p.body) THEN JSONstringify(p.body) ELSE Undefined]

\* does the response validation of the client function fail?
ResponseMismatch(ep, resp) ==
  ep.responseSchema # NoSchema /\ ~ZodAccepts(ep.responseSchema, resp)

ClientReturn_Strict(ep, resp) ==
  IF ResponseMismatch(ep, resp) THEN Threw(ResponseValidationError(ep))
  ELSE Returned(resp)

\* the client function after iamRequest resolved: the response is validated,
\* a mismatch is logged, and the response is returned
ClientReturn(ep, resp) == Returned(resp)

(***************************************************************************)
(* Direct calls of makeIAMRequest, with and without an allow-list.         *)
(***************************************************************************)
DirectArgs ==
  [domain : {StrEmpty, Domain},
   path : {Str(<<"/", "heroes">>)},
   method : {Undefined, POST},
   body : {Undefined, Str(JSONtext(EmptyObj))},
   headers : {Undefined},
   query : {Undefined},
   allowedStatusCodes :
     {Undefined, Arr(<<>>), Arr(<<Num(500)>>), Arr(<<Num(404), Num(500)>>)}]

Fail_Retry(c, err) ==
  /\ cliPc' = cliPc
  /\ mkResult' = mkResult
  /\ cliResult' = cliResult

\* makeIAMRequest rethrows what it caught; a client function that awaits it
\* through iamRequest rejects with the same error
Fail(c, err) ==
  /\ cliPc' = "done"
  /\ mkResult' = Threw(err)
  /\ cliResult' = IF c = "client" THEN Threw(err) ELSE cliResult

\* makeIAMRequest up to the call of signRequest
MakeIAMRequest(c, a) ==
  /\ args' = a
  /\ IF ~Truthy(a.domain) THEN Fail(c, <<"No domain provided">>) /\ request' = request
     ELSE IF ~Truthy(a.path) THEN Fail(c, <<"No path provided">>) /\ request' = request
     ELSE /\ request' = HttpRequest(a, env)
          /\ cliPc' = "signing"
          /\ UNCHANGED <<mkResult, cliResult>>

\* a client function is invoked with params p
ClientInvoke(p) ==
  /\ cliPc = "idle"
  /\ caller' = "client"
  /\ params' = p
  /\ IF ValidatesBody(endpoint, p) /\ ~ZodAccepts(endpoint.requestSchema, p.body)
     THEN /\ cliPc' = "done"
          /\ logged' = Append(logged, ValidationError(endpoint))
          /\ cliResult' = Threw(ValidationError(endpoint))
          /\ UNCHANGED <<iamArgs, args, request, mkResult>>
     ELSE /\ iamArgs' = IamArgs(endpoint, p)
          /\ MakeIAMRequest("client", IamRequestArgs(iamArgs'))
          /\ UNCHANGED logged
  /\ UNCHANGED <<endpoint, env, signedRequest, ssoCalls, signCount, fetchCount,
                 res, response>>

\* makeIAMRequest is called directly with arguments a
DirectInvoke(a) ==
  /\ cliPc = "idle"
  /\ caller' = "direct"
  /\ MakeIAMRequest("direct", a)
  /\ UNCHANGED <<endpoint, env, params, iamArgs, signedRequest, ssoCalls,
                 signCount, fetchCount, res, response, logged>>

\* v4.sign(request) with the given credentials
Sign(credentials) ==
  /\ signCount' = signCount + 1
  /\ signedRequest' =
       [request |-> request, signature |-> SignatureV4(env, credentials)]
  /\ cliPc' = "fetching"
  /\ UNCHANGED <<mkResult, cliResult>>

\* signRequest with both static credentials in the environment
SignStatic ==
  /\ cliPc = "signing"
  /\ ~NeedsSSO(env)
  /\ Sign(StaticCredentials(env))
  /\ UNCHANGED <<endpoint, env, caller, params, iamArgs, args, request,
                 ssoCalls, fetchCount, res, response, logged>>

\* getSSOCredentials without AWS_PROFILE: it throws
SignNoProfile ==
  /\ cliPc = "signing"
  /\ NeedsSSO(env)
  /\ ~Truthy(env.AWS_PROFILE)
  /\ Fail(caller, <<"AWS_PROFILE is not set, possibly not using SSO or not logged in">>)
  /\ UNCHANGED <<endpoint, env, caller, params, iamArgs, args, request,
                 signedRequest, ssoCalls, signCount, fetchCount, res, response,
                 logged>>

\* getSSOCredentials with AWS_PROFILE: the provider resolves or rejects
SignSSO(resolves) ==
  /\ cliPc = "signing"
  /\ NeedsSSO(env)
  /\ Truthy(env.AWS_PROFILE)
  /\ ssoCalls' = ssoCalls + 1
  /\ IF resolves
     THEN Sign(fromSSO(env.AWS_PROFILE))
     ELSE Fail(caller, <<"SSO credentials unavailable">>)
          /\ UNCHANGED <<signedRequest, signCount>>
  /\ UNCHANGED <<endpoint, env, caller, params, iamArgs, args, request,
                 fetchCount, res, response, logged>>

\* fetch rejects: a request with method GET and a body is refused by fetch
\* itself, any other request can meet a network error
FetchFails ==
  /\ cliPc = "fetching"
  /\ fetchCount' = fetchCount + 1
  /\ Fail(caller, <<"fetch failed">>)
  /\ UNCHANGED <<endpoint, env, caller, params, iamArgs, args, request,
                 signedRequest, ssoCalls, signCount, res, response, logged>>

\* fetch resolves to r: the status check, and for a client function the
\* response validation
FetchResolves(r) ==
  /\ cliPc = "fetching"
  /\ ~(request.method = GET /\ request.body # Undefined)
  /\ fetchCount' = fetchCount + 1
  /\ cliPc' = "done"
  /\ res' = r
  /\ mkResult' = CheckStatus(args, r)
  /\ IF caller = "direct" THEN UNCHANGED <<response, cliResult, logged>>
     ELSE IF mkResult'.kind = "threw"
     THEN cliResult' = mkResult' /\ UNCHANGED <<response, logged>>
     ELSE /\ response' = IamRequestResponse(r)
          /\ logged' = IF ResponseMismatch(endpoint, response')
                       THEN Append(logged, ResponseValidationError(endpoint))
                       ELSE logged
          /\ cliResult' = ClientReturn(endpoint, response')
  /\ UNCHANGED <<endpoint, env, caller, params, iamArgs, args, request,
                 signedRequest, ssoCalls, signCount>>

(***************************************************************************)
(* Path templates and the client catalog (helpers/endpoints.ts,            *)
(* zodPathParametersSchema and createApiClient).                           *)
(***************************************************************************)
\* the longest path template, in segments
MaxSegments == 3

\* the segments of the path templates: a literal, placeholders (one of them
\* named by a digit), an opened placeholder that is not closed, empty braces
\* and a closing brace without an opening one
Segments ==
  {<<"heroes">>, <<"{", "hero", "}">>, <<"{", "id", "}">>, <<"{", "1", "}">>,
   <<"{", "hero">>, <<"{", "}">>, <<"id", "}">>}

RECURSIVE PathsOf(_)
\* the path templates of n segments, each segment after a "/"
PathsOf(n) ==
  IF n = 0 THEN {<<>>}
  ELSE {p \o <<"/">> \o seg : p \in PathsOf(n - 1), seg \in Segments}

PathTemplates == UNION {PathsOf(n) : n \in 1..MaxSegments}

\* the index of the first "}" of path after position i, 0 when there is none
NextClose(path, i) ==
  IF \E j \in (i + 1)..Len(path) : path[j] = "}"
  THEN CHOOSE j \in (i + 1)..Len(path) :
         path[j] = "}" /\ \A m \in (i + 1)..(j - 1) : path[m] # "}"
  ELSE 0

RECURSIVE Matches(_, _)
\* the texts match[1] of the successive matches of /\{([^}]+)\}/g in path,
\* the search starting at position i
Matches(path, i) ==
  IF i > Len(path) THEN <<>>
  ELSE IF path[i] = "{" /\ NextClose(path, i) > i + 1
       THEN <<SubSeq(path, i + 1, NextClose(path, i) - 1)>>
              \o Matches(path, NextClose(path, i) + 1)
       ELSE Matches(path, i + 1)

Digits == <<"0", "1", "2", "3", "4", "5", "6", "7", "8", "9">>

\* is the property key a canonical array index? (the templates hold names of
\* one lexeme, so an index is a single digit)
IsIndex(key) == Len(key) = 1 /\ \E d \in 1..Len(Digits) : key[1] = Digits[d]

RECURSIVE FirstAssignments(_)
\* the keys of a sequence of assignments params[key] = ..., each at the
\* place of its first assignment
FirstAssignments(keys) ==
  IF keys = <<>> THEN <<>>
  ELSE LET before == FirstAssignments(SubSeq(keys, 1, Len(keys) - 1))
           last == keys[Len(keys)]
       IN IF \E i \in 1..Len(before) : before[i] = last THEN before
          ELSE Append(before, last)

OwnKeys_KeepRepeats(keys) == keys

\* the own keys of the object params after the assignments, in the order
\* JavaScript enumerates them: array indices ascending, then the other keys
\* in the order of their first assignment
OwnKeys(keys) ==
  LET assigned == FirstAssignments(keys)
      IsAssigned(d) == \E i \in 1..Len(assigned) : assigned[i] = <<d>>
      IsName(key) == ~IsIndex(key)
      indices == SelectSeq(Digits, IsAssigned)
  IN [i \in 1..Len(indices) |-> <<indices[i]>>] \o SelectSeq(assigned, IsName)

\* z.object(params), params[match[1]] = z.string() for each match: the
\* shape, and the keys of the shape in their order
zodPathParametersSchema(path) ==
  LET keys == OwnKeys(Matches(path, 1))
  IN [k |-> "object",
      keys |-> keys,
      shape |-> [key \in {keys[i] : i \in 1..Len(keys)} |-> Req(ZString)]]

\* buildClientFunction(...) with the metadata createApiClient attaches to it
ClientFunction(key, ep) ==
  [endpointName |-> key,
   description |-> ep.description,
   requestSchema |-> ep.requestSchema,
   responseSchema |-> ep.responseSchema,
   pathParametersSchema |-> zodPathParametersSchema(ep.path),
   endpoint |-> ep]

createApiClient_NoPathParameters(eps) ==
  [key \in DOMAIN eps |->
     [ClientFunction(key, eps[key]) EXCEPT
        !.pathParametersSchema = zodPathParametersSchema(<<>>)]]

\* for (const key in endpoints) client[key] = fn
createApiClient(eps) ==
  [key \in DOMAIN eps |-> ClientFunction(key, eps[key])]

\* the keys endpoints are added under, and the contracts they are given
NewKeys == {"custom"}
Contracts ==
  {[method |-> GET, request |-> NoSchema, response |-> NoSchema,
    description |-> Undefined],
   [method |-> POST, request |-> ZNameObject, response |-> ZNameObject,
    description |-> StrA]}

NoEndpoints == [key \in {} |-> NoValue]

\* key: defineZodEndpoint({ path, method, schemas, description }) is added
\* to the endpoints map
DefineEndpoint(key, path, c) ==
  /\ regPc = "defining"
  /\ key \notin DOMAIN registry
  /\ defineArgs' = [path |-> path, method |-> c.method,
                    schemas |-> [request |-> c.request, response |-> c.response],
                    description |-> c.description]
  /\ defineOutcome' =
       Returned(defineZodEndpoint(path, c.method, c.request, c.response,
                                  c.description))
  /\ registry' = [k \in DOMAIN registry \cup {key} |->
                    IF k = key THEN defineOutcome'.value ELSE registry[k]]
  /\ UNCHANGED <<client, regPc>>

\* createApiClient({ endpoints, baseUrl })
CreateApiClient ==
  /\ regPc = "defining"
  /\ regPc' = "built"
  /\ client' = createApiClient(registry)
  /\ UNCHANGED <<registry, defineArgs, defineOutcome>>

\* an endpoints map is being written: it is empty, or holds the registry
RegInit ==
  /\ registry \in {NoEndpoints, endpoints}
  /\ defineArgs = NoValue
  /\ defineOutcome = NoResult
  /\ client = NoValue
  /\ regPc = "defining"

\* no endpoints map under observation
RegIdle ==
  /\ registry = endpoints
  /\ defineArgs = NoValue
  /\ defineOutcome = NoResult
  /\ client = NoValue
  /\ regPc = "off"

RegNext ==
  \/ \E key \in NewKeys, path \in PathTemplates, c \in Contracts :
       DefineEndpoint(key, path, c) /\ UNCHANGED <<srvVars, cliVars, tblVars, cdkVars>>
  \/ CreateApiClient /\ UNCHANGED <<srvVars, cliVars, tblVars, cdkVars>>

(***************************************************************************)
(* The lambdas and their table (lib/lambda: addHero, addRescue,            *)
(* searchHeroes, listHeroRescues, dynamo).                                 *)
(***************************************************************************)
\* how many apiHandler invocations a behaviour holds
MaxInvocations == 2

\* obj[key], undefined when obj has no such property
Field(obj, key) == IF key \in DOMAIN obj.f THEN obj.f[key] ELSE Undefined

\* `${v}`
TemplateText(v) ==
  CASE v.t = "string" -> v.s
    [] v.t = "undefined" -> <<"undefined">>
    [] v.t = "null" -> <<"null">>
    [] OTHER -> <<"[object Object]">>

\* new Date().toISOString(): the clock ticks with every invocation that begins
Timestamp(n) == Str(<<"time ", ToString(n)>>)

\* marshalling with removeUndefinedValues: undefined attributes are dropped
Marshall(item) ==
  [k \in {x \in DOMAIN item : item[x] # Undefined} |-> item[k]]

\* the Item of the PutCommand of addHero: later properties replace earlier
HeroItem(body, now) ==
  Marshall([rescues |-> Num(0), createdAt |-> now]
             @@ body.f
             @@ [pk |-> Str(<<"HERO">>), sk |-> Field(body, "name")])

\* the Item of the PutCommand of addRescue
RescueItem(body, uuid, now) ==
  Marshall([createdAt |-> now]
             @@ body.f
             @@ [pk |-> Str(<<"RESCUE">>),
                 sk |-> Str(<<"HERO#">> \o TemplateText(Field(body, "hero"))
                              \o <<"#", uuid>>)])

\* does the item carry the string keys pk and sk of the table?
HasKey(item) ==
  /\ {"pk", "sk"} \subseteq DOMAIN item
  /\ item.pk.t = "string"
  /\ item.sk.t = "string"

\* the items of tbl under the key of item
Stored(tbl, item) == {x \in tbl : x.pk = item.pk /\ x.sk = item.sk}

ConditionalCheckFailed == Str(<<"ConditionalCheckFailedException">>)
ValidationException == Str(<<"ValidationException">>)

\* PutCommand with ConditionExpression
\* "attribute_not_exists(pk) AND attribute_not_exists(sk)"
PutCommand(tbl, item) ==
  IF ~HasKey(item) THEN [ok |-> FALSE, error |-> ValidationException]
  ELSE IF Stored(tbl, item) # {}
       THEN [ok |-> FALSE, error |-> ConditionalCheckFailed]
       ELSE [ok |-> TRUE, table |-> tbl \cup {item}]

\* UpdateCommand on the hero of the rescue: SET rescues =
\* if_not_exists(rescues, :zero) + :one, updatedAt = :updatedAt, with
\* ConditionExpression "attribute_exists(pk) AND attribute_exists(sk)" and
\* ReturnValues ALL_NEW
UpdateCommand(tbl, body, now) ==
  LET key == [pk |-> Str(<<"HERO">>), sk |-> Field(body, "hero")]
  IN IF ~HasKey(key) THEN [ok |-> FALSE, error |-> ValidationException]
     ELSE IF Stored(tbl, key) = {}
          THEN [ok |-> FALSE, error |-> ConditionalCheckFailed]
          ELSE LET old == CHOOSE x \in Stored(tbl, key) : TRUE
                   rescues == IF "rescues" \in DOMAIN old THEN old.rescues.n
                              ELSE 0
                   new == [rescues |-> Num(rescues + 1), updatedAt |-> now]
                            @@ old
               IN [ok |-> TRUE, table |-> (tbl \ {old}) \cup {new},
                   Attributes |-> Obj(new)]

\* crypto.randomUUID(): one of these, and never one that was drawn before
Uuids == {ToString(n) : n \in 1..MaxInvocations}
NoUuid == "none"

\* the lexemes of sort keys, in their order
SortOrder ==
  <<"#">> \o [n \in 1..MaxInvocations |-> ToString(n)]
    \o <<"A", "B", "HERO#", "undefined">>
Rank(x) == CHOOSE i \in 1..Len(SortOrder) : SortOrder[i] = x

RECURSIVE Before(_, _)
\* does the sort key s come before the sort key u?
Before(s, u) ==
  IF s = <<>> THEN u # <<>>
  ELSE IF u = <<>> THEN FALSE
  ELSE IF s[1] = u[1] THEN Before(Tail(s), Tail(u))
  ELSE Rank(s[1]) < Rank(u[1])

RECURSIVE Items(_)
\* the Items of a query result: the matching items in the order of their sk
Items(matching) ==
  IF matching = {} THEN <<>>
  ELSE LET first == CHOOSE x \in matching :
                      \A y \in matching \ {x} : Before(x.sk.s, y.sk.s)
       IN <<first>> \o Items(matching \ {first})

\* the QueryCommand of searchHeroes: pk = :pk, filtered by `#key = :key`
\* for every entry of the body
QueryHeroes(tbl, body) ==
  Items({x \in tbl :
           /\ x.pk = Str(<<"HERO">>)
           /\ \A key \in DOMAIN body.f :
                key \in DOMAIN x /\ x[key] = body.f[key]})

\* is the sequence prefix the beginning of the sequence whole?
BeginsWith(whole, prefix) ==
  Len(prefix) <= Len(whole) /\ SubSeq(whole, 1, Len(prefix)) = prefix

\* the QueryCommand of listHeroRescues: pk = :pk and begins_with(sk, :sk)
QueryRescues(tbl, hero) ==
  Items({x \in tbl :
           /\ x.pk = Str(<<"RESCUE">>)
           /\ BeginsWith(x.sk.s, <<"HERO#">> \o TemplateText(hero) \o <<"#">>)})

Rest_Everything(item) == Obj(item)

\* const { pk, sk, createdAt, ...rest } = item
Rest(item) ==
  Obj([k \in DOMAIN item \ {"pk", "sk", "createdAt"} |-> item[k]])

\* items.map(strip).filter(schema.safeParse(...).success)
MapFilter(items, schema) ==
  LET Valid(x) == ZodAccepts(schema, x)
  IN Arr(SelectSeq([i \in 1..Len(items) |-> Rest(items[i])], Valid))

\* the lambda processes: one per function
Lambdas == {"addHero", "addRescue", "searchHeroes", "listHeroRescues"}

\* DynamoDBDocumentClient.from(client, translateConfig): the n-th client a
\* process constructs
DynamoDBDocumentClient(process, n) == [process |-> process, instance |-> n]

getDynamoClient_NoCache(process, cache, count) ==
  [client |-> DynamoDBDocumentClient(process, count[process] + 1),
   cache |-> [cache EXCEPT ![process] =
                DynamoDBDocumentClient(process, count[process] + 1)],
   count |-> [count EXCEPT ![process] = @ + 1]]

\* getDynamoClient() in a process: the cached client, constructed when the
\* module variable is not set yet
getDynamoClient(process, cache, count) ==
  IF cache[process] = Undefined
  THEN [client |-> DynamoDBDocumentClient(process, count[process] + 1),
        cache |-> [cache EXCEPT ![process] =
                     DynamoDBDocumentClient(process, count[process] + 1)],
        count |-> [count EXCEPT ![process] = @ + 1]]
  ELSE [client |-> cache[process], cache |-> cache, count |-> count]

\* the results of the handlers
HeroCreated ==
  [statusCode |-> Num(200),
   data |-> Obj([hero |-> Undefined, success |-> Bool(TRUE),
                 message |-> Str(<<"Hero created successfully">>)])]

HeroExists(body, e) ==
  [statusCode |-> Num(400),
   data |-> Obj([hero |-> body, success |-> Bool(FALSE), error |-> e,
                 message |-> Str(<<"Hero already exists">>)])]

RescueCreated(body, hero) ==
  [statusCode |-> Num(200),
   data |-> Obj([rescue |-> body, hero |-> hero, success |-> Bool(TRUE),
                 message |-> Str(<<"Rescue created successfully">>)])]

HeroIdRequired ==
  [statusCode |-> Num(400),
   data |-> Obj([message |-> Str(<<"Hero ID is required">>)])]

HeroesFound(heroes) ==
  [statusCode |-> Num(200), data |-> Obj([heroes |-> heroes])]

RescuesFound(rescues) ==
  [statusCode |-> Num(200), data |-> Obj([rescues |-> rescues])]

\* the bodies and path parameters the handlers are invoked with
HeroA == SampleHero
HeroB == Rec3("name", Str(<<"B">>), "powers", Arr(<<>>), "active", Bool(FALSE))
NameAndRescues == Rec2("name", StrA, "rescues", Num(0))
\* { name: "A", powers: ["A"], active: true, sk: "B" }
HeroAKeyedB == Obj(HeroA.f @@ [sk |-> Str(<<"B">>)])
Calls ==
  {[op |-> "addHero", body |-> b, pathParameters |-> EmptyObj] :
     b \in {HeroA, HeroB, NameAndRescues, HeroAKeyedB}}
  \cup {[op |-> "addRescue", body |-> SampleRescue,
          pathParameters |-> SomeMapping("hero")]}
  \cup {[op |-> "searchHeroes", body |-> b, pathParameters |-> EmptyObj] :
          b \in {EmptyObj, Obj([k \in {"name"} |-> StrA])}}
  \cup {[op |-> "listHeroRescues", body |-> EmptyObj, pathParameters |-> pp] :
          pp \in {EmptyObj, SomeMapping("hero")}}

\* the invocations that are over
Done == {i \in 1..Len(invs) : invs[i].pc = "done"}

\* the invocation i of the handlers settles with result r
Settle(i, r) ==
  invs' = [invs EXCEPT ![i].pc = "done", ![i].result = r]

\* an apiHandler is invoked: it runs up to its first ddb.send
Invoke(call, uuid) ==
  /\ tblPc = "serving"
  /\ Len(invs) < MaxInvocations
  /\ uuid \notin {invs[i].uuid : i \in 1..Len(invs)}
  /\ LET inv == [op |-> call.op, body |-> call.body,
                 pathParameters |-> call.pathParameters,
                 pc |-> "done", ddb |-> Undefined, uuid |-> NoUuid,
                 startedAt |-> Timestamp(Len(invs) + 1),
                 prior |-> Cardinality(Done),
                 before |-> table, result |-> NoValue]
         got == getDynamoClient(call.op, cachedDynamoClient, constructed)
     IN IF call.op = "listHeroRescues"
             /\ ~Truthy(Field(call.pathParameters, "hero"))
        THEN /\ invs' = Append(invs, [inv EXCEPT !.result = HeroIdRequired])
             /\ UNCHANGED <<cachedDynamoClient, constructed>>
        ELSE /\ cachedDynamoClient' = got.cache
             /\ constructed' = got.count
             /\ invs' = Append(invs,
                  [inv EXCEPT
                     !.ddb = got.client,
                     !.uuid = IF call.op = "addRescue" THEN uuid ELSE NoUuid,
                     !.pc = IF call.op \in {"addHero", "addRescue"} THEN "put"
                            ELSE "query"])
  /\ UNCHANGED <<table, tblPc>>

\* the PutCommand of invocation i is carried out and the handler continues
DynamoPut(i) ==
  /\ invs[i].pc = "put"
  /\ LET inv == invs[i]
         put == PutCommand(table,
                  IF inv.op = "addHero" THEN HeroItem(inv.body, inv.startedAt)
                  ELSE RescueItem(inv.body, inv.uuid, inv.startedAt))
     IN /\ table' = IF put.ok THEN put.table ELSE table
        /\ IF ~put.ok THEN Settle(i, HeroExists(inv.body, put.error))
           ELSE IF inv.op = "addHero" THEN Settle(i, HeroCreated)
           ELSE invs' = [invs EXCEPT ![i].pc = "update"]
  /\ UNCHANGED <<cachedDynamoClient, constructed, tblPc>>

\* the UpdateCommand of invocation i is carried out and the handler returns
DynamoUpdate(i) ==
  /\ invs[i].pc = "update"
  /\ LET inv == invs[i]
         update == UpdateCommand(table, inv.body, Timestamp(Len(invs)))
     IN /\ table' = IF update.ok THEN update.table ELSE table
        /\ IF update.ok
           THEN Settle(i, RescueCreated(inv.body, update.Attributes))
           ELSE Settle(i, HeroExists(inv.body, update.error))
  /\ UNCHANGED <<cachedDynamoClient, constructed, tblPc>>

\* the QueryCommand of invocation i is carried out and the handler returns
DynamoQuery(i) ==
  /\ invs[i].pc = "query"
  /\ table' = table
  /\ LET inv == invs[i]
     IN IF inv.op = "searchHeroes"
        THEN Settle(i, HeroesFound(MapFilter(QueryHeroes(table, inv.body),
                                             heroSchema)))
        ELSE Settle(i, RescuesFound(MapFilter(
                         QueryRescues(table, Field(inv.pathParameters, "hero")),
                         rescueSchema)))
  /\ UNCHANGED <<cachedDynamoClient, constructed, tblPc>>

\* the table is empty, or holds the hero A as addHero stored it earlier, and
\* no lambda process has served an invocation yet
TblInit ==
  /\ table \in {{}, {HeroItem(HeroA, Timestamp(0))}}
  /\ cachedDynamoClient = [process \in Lambdas |-> Undefined]
  /\ constructed = [process \in Lambdas |-> 0]
  /\ invs = <<>>
  /\ tblPc = "serving"

\* no table under observation
TblIdle ==
  /\ table = {}
  /\ cachedDynamoClient = [process \in Lambdas |-> Undefined]
  /\ constructed = [process \in Lambdas |-> 0]
  /\ invs = <<>>
  /\ tblPc = "off"

TblNext ==
  \/ \E call \in Calls, uuid \in Uuids :
       Invoke(call, uuid) /\ UNCHANGED <<srvVars, cliVars, regVars, cdkVars>>
  \/ \E i \in 1..Len(invs) :
       DynamoPut(i) /\ UNCHANGED <<srvVars, cliVars, regVars, cdkVars>>
  \/ \E i \in 1..Len(invs) :
       DynamoUpdate(i) /\ UNCHANGED <<srvVars, cliVars, regVars, cdkVars>>
  \/ \E i \in 1..Len(invs) :
       DynamoQuery(i) /\ UNCHANGED <<srvVars, cliVars, regVars, cdkVars>>

(***************************************************************************)
(* The Lambda construct: the function, its grants and its environment.     *)
(***************************************************************************)
\* how many tables one construct declares at most
MaxDynamos == 2

\* the keys of the declarations, and the tables of the stack
DynamoKeys == {"TABLE_NAME", "ARCHIVE_NAME"}
Tables == {"heroes", "archive"}

\* value.table.tableName
tableName(tbl) == Str(<<tbl>>)

\* DynamoAccessProps: an object of declarations, its properties in the order
\* they were written
DynamoAccessProps ==
  {Obj(d) : d \in
     {x \in UNION {[1..n -> [key : DynamoKeys, table : Tables,
                              access : {"r", "w", "rw"}]] : n \in 0..MaxDynamos} :
        \A i, j \in DOMAIN x : x[i].key = x[j].key => i = j}}

\* the routes of the stack for a table: entry and dynamos of each
LambdaEndpoints(tbl) ==
  {[entry |-> "addHero",
    dynamos |-> Obj(<<[key |-> "TABLE_NAME", table |-> tbl, access |-> "rw"]>>)],
   [entry |-> "addRescue",
    dynamos |-> Obj(<<[key |-> "TABLE_NAME", table |-> tbl, access |-> "rw"]>>)],
   [entry |-> "listHeroRescues",
    dynamos |-> Obj(<<[key |-> "TABLE_NAME", table |-> tbl, access |-> "r"]>>)],
   [entry |-> "searchHeroes",
    dynamos |-> Obj(<<[key |-> "TABLE_NAME", table |-> tbl, access |-> "r"]>>)]}

\* LambdaProps: dynamos is optional
LambdaProps ==
  [entry : Lambdas, dynamos : {Undefined} \cup DynamoAccessProps]

\* new NodejsFunction(...), then bus.grantPutEventsTo(fn)
NodejsFunction(name) ==
  [functionName |-> name,
   environment |-> <<>>,
   grants |-> {[resource |-> "default", action |-> "events:PutEvents"]}]

\* what the grant methods of a table allow on it
grantReadData(tbl) == {[resource |-> tbl, action |-> "read"]}
grantWriteData(tbl) == {[resource |-> tbl, action |-> "write"]}
grantReadWriteData(tbl) == grantReadData(tbl) \cup grantWriteData(tbl)

\* the grant method the callback of addDynamoAccess calls for a declaration
GrantMethod(value) ==
  CASE value.access = "r" -> "grantReadData"
    [] value.access = "w" -> "grantWriteData"
    [] value.access = "rw" -> "grantReadWriteData"

\* what that method grants
Granted(value) ==
  CASE value.access = "r" -> grantReadData(value.table)
    [] value.access = "w" -> grantWriteData(value.table)
    [] value.access = "rw" -> grantReadWriteData(value.table)

\* the constructor up to its call of addDynamoAccess: the function is
\* created and held by the constant fn; the field this.fn is not assigned
NewLambda ==
  /\ cdkPc = "new"
  /\ fn' = NodejsFunction(props.entry)
  /\ IF Truthy(props.dynamos)
       THEN /\ entries' = props.dynamos.f
            /\ cdkPc' = "forEach"
       ELSE /\ entries' = <<>>
            /\ cdkPc' = "constructed"
  /\ UNCHANGED <<props, thisFn, thrown>>

\* the callback of addDynamoAccess for the next declaration.  The grantee
\* and the receiver of addEnvironment is this.fn: while it is undefined, the
\* grant method throws or grants nothing to any function, and addEnvironment
\* throws
addDynamoAccess(grantThrows) ==
  /\ cdkPc = "forEach"
  /\ entries # <<>>
  /\ IF thisFn = Undefined
       THEN /\ cdkPc' = "threw"
            /\ thrown' = IF grantThrows THEN GrantMethod(Head(entries))
                                         ELSE "addEnvironment"
            /\ UNCHANGED <<fn, entries>>
       ELSE /\ fn' = [fn EXCEPT
                        !.grants = @ \cup Granted(Head(entries)),
                        !.environment =
                          [k \in {Head(entries).key} |->
                             tableName(Head(entries).table)] @@ @]
            /\ entries' = Tail(entries)
            /\ UNCHANGED <<cdkPc, thrown>>
  /\ UNCHANGED <<props, thisFn>>

\* forEach is over and the constructor returns
LambdaConstructed ==
  /\ cdkPc = "forEach"
  /\ entries = <<>>
  /\ cdkPc' = "constructed"
  /\ UNCHANGED <<props, fn, thisFn, entries, thrown>>

\* new Lambda(scope, id, props) is about to run
CdkInit ==
  /\ props \in LambdaProps
  /\ fn = NoValue
  /\ thisFn = Undefined
  /\ entries = <<>>
  /\ thrown = "none"
  /\ cdkPc = "new"

\* no construct under observation
CdkIdle ==
  /\ props = [entry |-> "addHero", dynamos |-> Undefined]
  /\ fn = NoValue
  /\ thisFn = Undefined
  /\ entries = <<>>
  /\ thrown = "none"
  /\ cdkPc = "off"

CdkNext ==
  \/ NewLambda /\ UNCHANGED <<srvVars, cliVars, regVars, tblVars>>
  \/ \E grantThrows \in BOOLEAN :
       addDynamoAccess(grantThrows) /\ UNCHANGED <<srvVars, cliVars, regVars, tblVars>>
  \/ LambdaConstructed /\ UNCHANGED <<srvVars, cliVars, regVars, tblVars>>

(***************************************************************************)
(* Specifications.                                                         *)
(***************************************************************************)
SrvInit ==
  /\ options \in WrapperOptions
  /\ event = NoEvent
  /\ srvPc = "idle"
  /\ handlerCalls = 0
  /\ handlerArgs = NoArgs
  /\ handlerOutcome = NotSettled
  /\ handlerOutput = Undefined
  /\ srvResult = NoResult

\* no server wrapper under observation
SrvIdle ==
  /\ options = handler("addHero")
  /\ event = NoEvent
  /\ srvPc = "off"
  /\ handlerCalls = 0
  /\ handlerArgs = NoArgs
  /\ handlerOutcome = NotSettled
  /\ handlerOutput = Undefined
  /\ srvResult = NoResult

CliInit ==
  /\ endpoint \in ClientEndpoints
  /\ env \in Envs
  /\ cliPc = "idle"
  /\ caller = "none"
  /\ params = NoValue
  /\ iamArgs = NoValue
  /\ args = NoValue
  /\ request = NoValue
  /\ signedRequest = NoValue
  /\ ssoCalls = 0
  /\ signCount = 0
  /\ fetchCount = 0
  /\ res = NoValue
  /\ response = NoValue
  /\ mkResult = NoResult
  /\ logged = <<>>
  /\ cliResult = NoResult

\* no client under observation
CliIdle ==
  /\ endpoint = [key |-> "addHero"] @@ endpoints["addHero"]
  /\ env \in {e \in Envs : \A k \in DOMAIN e : e[k] = Undefined}
  /\ cliPc = "off"
  /\ caller = "none"
  /\ params = NoValue
  /\ iamArgs = NoValue
  /\ args = NoValue
  /\ request = NoValue
  /\ signedRequest = NoValue
  /\ ssoCalls = 0
  /\ signCount = 0
  /\ fetchCount = 0
  /\ res = NoValue
  /\ response = NoValue
  /\ mkResult = NoResult
  /\ logged = <<>>
  /\ cliResult = NoResult

SrvNext ==
  \/ \E ev \in Events : Receive(ev) /\ UNCHANGED <<cliVars, regVars, tblVars, cdkVars>>
  \/ HandlerThrows /\ UNCHANGED <<cliVars, regVars, tblVars, cdkVars>>
  \/ \E out \in HandlerOutputs \cup {Undefined} :
       HandlerReturns(out) /\ UNCHANGED <<cliVars, regVars, tblVars, cdkVars>>

CliNext ==
  \/ \E p \in Params : ClientInvoke(p) /\ UNCHANGED <<srvVars, regVars, tblVars, cdkVars>>
  \/ \E a \in DirectArgs : DirectInvoke(a) /\ UNCHANGED <<srvVars, regVars, tblVars, cdkVars>>
  \/ SignStatic /\ UNCHANGED <<srvVars, regVars, tblVars, cdkVars>>
  \/ SignNoProfile /\ UNCHANGED <<srvVars, regVars, tblVars, cdkVars>>
  \/ \E resolves \in BOOLEAN : SignSSO(resolves) /\ UNCHANGED <<srvVars, regVars, tblVars, cdkVars>>
  \/ FetchFails /\ UNCHANGED <<srvVars, regVars, tblVars, cdkVars>>
  \/ \E r \in Responses : FetchResolves(r) /\ UNCHANGED <<srvVars, regVars, tblVars, cdkVars>>

\* a wrapper has been constructed with initApiHandler
InitServer == SrvInit /\ CliIdle /\ RegIdle /\ TblIdle /\ CdkIdle

\* a client function has been built with buildClientFunction
InitClient == CliInit /\ SrvIdle /\ RegIdle /\ TblIdle /\ CdkIdle

\* an endpoints map is written and a client is built from it
InitRegistry == RegInit /\ SrvIdle /\ CliIdle /\ TblIdle /\ CdkIdle

\* the lambdas are deployed on their table
InitTable == TblInit /\ SrvIdle /\ CliIdle /\ RegIdle /\ CdkIdle

\* a Lambda construct is about to be created
InitConstruct == CdkInit /\ SrvIdle /\ CliIdle /\ RegIdle /\ TblIdle

\* one invocation of a wrapped server function
SpecServer == InitServer /\ [][SrvNext]_vars

\* one invocation of a client function or of makeIAMRequest
SpecClient == InitClient /\ [][CliNext]_vars

\* defineZodEndpoint calls followed by createApiClient
SpecRegistry == InitRegistry /\ [][RegNext]_vars

\* invocations of the four apiHandlers, interleaved at their awaits
SpecTable == InitTable /\ [][TblNext]_vars

\* the construction of one Lambda construct
SpecConstruct == InitConstruct /\ [][CdkNext]_vars

(***************************************************************************)
(* Properties of the client functions and of makeIAMRequest (SpecClient).  *)
(***************************************************************************)
\* the caller supplied a body that the request schema of the endpoint rejects
SuppliedInvalidBody ==
  /\ caller = "client"
  /\ endpoint.requestSchema # NoSchema
  /\ params.body # Undefined
  /\ ~ZodAccepts(endpoint.requestSchema, params.body)

\* C1: when the endpoint has a request schema and the supplied body does not
\* conform to it, the invocation throws a validation error, no request is
\* signed and no fetch is issued.
C1_InvalidBodyThrowsBeforeTransport ==
  SuppliedInvalidBody =>
    /\ cliPc = "done" => cliResult = Threw(ValidationError(endpoint))
    /\ signCount = 0
    /\ fetchCount = 0

\* the allow-list of the call: the caller's, [404] when none is supplied
AllowList ==
  IF args.allowedStatusCodes = Undefined THEN {404}
  ELSE {args.allowedStatusCodes.a[i].n :
          i \in 1..Len(args.allowedStatusCodes.a)}

\* the sequence part occurs in the sequence whole
Occurs(part, whole) ==
  \E i \in 1..(Len(whole) - Len(part) + 1) :
    SubSeq(whole, i, i + Len(part) - 1) = part

\* C4: makeIAMRequest returns the response without throwing when its status
\* is 2xx or in the allow-list, and otherwise throws an error whose message
\* carries the status code, the status text and the response body text.
C4_StatusAllowList ==
  res # NoValue =>
    IF (res.status >= 200 /\ res.status <= 299) \/ res.status \in AllowList
    THEN mkResult = Returned(res)
    ELSE /\ mkResult.kind = "threw"
         /\ Occurs(<<ToString(res.status)>>, mkResult.error)
         /\ Occurs(<<res.statusText>>, mkResult.error)
         /\ Occurs(res.text, mkResult.error)

\* status 500 with the allow-list [404, 500]: the response is returned
C4_Witness ==
  /\ res # NoValue
  /\ res.status = 500
  /\ args.allowedStatusCodes = Arr(<<Num(404), Num(500)>>)
  /\ mkResult = Returned(res)

\* the response iamRequest resolved to does not match the response schema
ResponseFailsSchema ==
  /\ caller = "client"
  /\ response # NoValue
  /\ endpoint.responseSchema # NoSchema
  /\ ~ZodAccepts(endpoint.responseSchema, response)

\* C5: a response that fails the response schema does not make the client
\* function throw: the failure is logged and the response is returned
\* unchanged.
C5_ResponseMismatchOnlyLogged ==
  ResponseFailsSchema =>
    /\ cliResult = Returned(response)
    /\ logged = <<ResponseValidationError(endpoint)>>

\* a registry client got a 200 response that its response schema rejects
C5_Witness ==
  /\ ResponseFailsSchema
  /\ endpoint.key = "addHero"
  /\ res.status = 200
  /\ cliResult = Returned(response)

\* C6: a client function of a GET or DELETE endpoint hands no body to the
\* transport, whatever body the params supply.
C6_NoBodyOnGetAndDelete ==
  (caller = "client" /\ endpoint.method \in {GET, DELETE}) =>
    /\ iamArgs # NoValue => iamArgs.body = Undefined
    /\ request # NoValue => request.body = Undefined

\* signRequest has been reached and is over
SigningOver == request # NoValue /\ cliPc \in {"fetching", "done"}

\* C13: signing uses the static credentials of the environment, without
\* consulting the SSO provider, whenever both access key and secret are
\* present; when either is absent it resolves credentials from the SSO
\* provider for the configured profile; when no profile is configured either,
\* signing fails, the invocation fails and no request is sent.
C13_CredentialResolutionOrder ==
  SigningOver =>
    IF env.AWS_ACCESS_KEY_ID # Undefined /\ env.AWS_SECRET_ACCESS_KEY # Undefined
    THEN /\ ssoCalls = 0
         /\ signCount = 1
         /\ signedRequest.signature.credentials =
              [accessKeyId |-> env.AWS_ACCESS_KEY_ID,
               secretAccessKey |-> env.AWS_SECRET_ACCESS_KEY,
               sessionToken |-> env.AWS_SESSION_TOKEN]
    ELSE IF env.AWS_PROFILE # Undefined
    THEN /\ ssoCalls = 1
         /\ signCount = 1 =>
              signedRequest.signature.credentials = fromSSO(env.AWS_PROFILE)
         /\ signCount = 0 => (mkResult.kind = "threw" /\ fetchCount = 0)
    ELSE /\ ssoCalls = 0
         /\ signCount = 0
         /\ signedRequest = NoValue
         /\ fetchCount = 0
         /\ mkResult.kind = "threw"
         /\ caller = "client" => cliResult.kind = "threw"

\* a client invocation with an access key but no secret signed its request
\* with the SSO credentials of the profile
C13_Witness ==
  /\ SigningOver
  /\ caller = "client"
  /\ env.AWS_ACCESS_KEY_ID # Undefined
  /\ env.AWS_SECRET_ACCESS_KEY = Undefined
  /\ env.AWS_PROFILE # Undefined
  /\ ssoCalls = 1
  /\ signedRequest # NoValue
  /\ signedRequest.signature.credentials = fromSSO(env.AWS_PROFILE)
  /\ fetchCount = 1

\* C14: every signature is scoped to the service execute-api and to the
\* configured region, or to us-east-1 when no region is configured.
C14_ServiceAndRegion ==
  signedRequest # NoValue =>
    /\ signedRequest.signature.service = "execute-api"
    /\ signedRequest.signature.region =
         IF env.AWS_DEFAULT_REGION # Undefined THEN env.AWS_DEFAULT_REGION
         ELSE Str(<<"us-east-1">>)

\* the names of the {name} placeholders of a path template
Placeholders(path) ==
  {path[i + 1] : i \in {j \in 1..(Len(path) - 2) :
                          path[j] = "{" /\ path[j + 2] = "}"}}

RECURSIVE Substituted(_, _)
\* the template with every placeholder that has a value replaced by the
\* URL-escaped value
Substituted(path, values) ==
  IF path = <<>> THEN <<>>
  ELSE IF /\ Len(path) >= 3
          /\ path[1] = "{"
          /\ path[3] = "}"
          /\ path[2] \in DOMAIN values
       THEN encodeURIComponent(values[path[2]].s)
              \o Substituted(SubSeq(path, 4, Len(path)), values)
       ELSE <<path[1]>> \o Substituted(Tail(path), values)

\* C16: when the pathParameters supply a value for each placeholder of the
\* path template, the path handed to the transport has every placeholder
\* occurrence replaced by the URL-escaped value, and no placeholder remains.
C16_EveryPlaceholderSubstituted ==
  (/\ caller = "client"
   /\ iamArgs # NoValue
   /\ params.pathParameters # Undefined
   /\ Placeholders(endpoint.path) \subseteq DOMAIN params.pathParameters.f)
    => /\ Placeholders(iamArgs.path.s) = {}
       /\ iamArgs.path.s \in
            {Substituted(endpoint.path, params.pathParameters.f),
             <<"/">> \o Substituted(endpoint.path, params.pathParameters.f)}

\* the client invocation is over
ClientDone == caller = "client" /\ cliPc = "done"

\* the supplied body passed the validation of the client function
BodyPassedValidation == caller = "client" /\ iamArgs # NoValue

\* C18, as stated: an invocation signs at most once and fetches at most
\* once, the signing before the fetch, whatever fails; and for a body that
\* passes validation exactly one request is signed and sent.
C18_OneSignOneFetch ==
  /\ signCount <= 1
  /\ fetchCount <= signCount
  /\ cliPc = "fetching" => (signCount = 1 /\ fetchCount = 0)
  /\ (ClientDone /\ BodyPassedValidation) => (signCount = 1 /\ fetchCount = 1)

\* C18, amended: the same, with exactly one request signed and sent for a
\* body that passes validation when the credentials resolve, and none when
\* they do not.
C18_OneSignOneFetchIfCredentials ==
  /\ signCount <= 1
  /\ fetchCount <= signCount
  /\ cliPc = "fetching" => (signCount = 1 /\ fetchCount = 0)
  /\ (ClientDone /\ BodyPassedValidation) =>
       IF signedRequest # NoValue THEN signCount = 1 /\ fetchCount = 1
       ELSE signCount = 0 /\ fetchCount = 0 /\ cliResult.kind = "threw"
  /\ (ClientDone /\ ~BodyPassedValidation) =>
       (signCount = 0 /\ fetchCount = 0 /\ cliResult.kind = "threw")

\* a client invocation whose only fetch was rejected is over, with one
\* signing and one fetch
C18_Witness ==
  /\ ClientDone
  /\ BodyPassedValidation
  /\ Truthy(params.body)
  /\ res = NoValue
  /\ cliResult.kind = "threw"
  /\ signCount = 1
  /\ fetchCount = 1

\* the request carries a header named h
Carries(h) == h \in DOMAIN request.headers

\* C19, as stated: every request makeIAMRequest builds carries a sourceFn
\* header, and carries Content-Type: application/json if and only if it has
\* a body.
C19_SourceFnAndContentType ==
  request # NoValue =>
    /\ Carries("sourceFn")
    /\ request.body # Undefined <=>
         (/\ Carries("Content-Type")
          /\ request.headers["Content-Type"] = Str(<<"application/json">>))
    /\ request.body = Undefined => ~Carries("Content-Type")

\* the caller's headers name Content-Type themselves
CallerSetsContentType ==
  args.headers # Undefined /\ "Content-Type" \in DOMAIN args.headers.f

\* C19, amended: the same for every request whose caller-supplied headers
\* do not themselves name Content-Type; the caller's headers are applied
\* last and replace the built ones.
C19_SourceFnAndContentTypeUnlessOverridden ==
  request # NoValue =>
    /\ Carries("sourceFn")
    /\ ~CallerSetsContentType =>
         /\ request.body # Undefined <=>
              (/\ Carries("Content-Type")
               /\ request.headers["Content-Type"] = Str(<<"application/json">>))
         /\ request.body = Undefined => ~Carries("Content-Type")
    /\ CallerSetsContentType =>
         request.headers["Content-Type"] = args.headers.f["Content-Type"]

\* a client function built a request with a body, the caller naming no
\* Content-Type
C19_Witness ==
  /\ request # NoValue
  /\ ~CallerSetsContentType
  /\ caller = "client"
  /\ request.body # Undefined
  /\ Carries("sourceFn")
  /\ request.headers["Content-Type"] = Str(<<"application/json">>)

(***************************************************************************)
(* Properties of path templates and of the client catalog (SpecRegistry).  *)
(***************************************************************************)
\* a lexeme that is a name, not a brace or a slash
IsNameLexeme(x) == x \notin {"/", "{", "}"}

\* every brace of the template belongs to a placeholder {name}
WellFormed(path) ==
  \A i \in 1..Len(path) :
    /\ path[i] = "{" =>
         (i + 2 <= Len(path) /\ IsNameLexeme(path[i + 1]) /\ path[i + 2] = "}")
    /\ path[i] = "}" =>
         (i >= 3 /\ IsNameLexeme(path[i - 1]) /\ path[i - 2] = "{")

\* the template has a "{" that no "}" closes before the next "{" or the end
Unterminated(path) ==
  \E i \in 1..Len(path) :
    /\ path[i] = "{"
    /\ \A j \in (i + 1)..Len(path) :
         path[j] = "}" => \E m \in (i + 1)..(j - 1) : path[m] = "{"

RECURSIVE TokenNames(_)
\* the names of the {name} tokens of a template, in order of occurrence
TokenNames(path) ==
  IF Len(path) < 3 THEN <<>>
  ELSE IF path[1] = "{" /\ IsNameLexeme(path[2]) /\ path[3] = "}"
       THEN <<path[2]>> \o TokenNames(SubSeq(path, 4, Len(path)))
       ELSE TokenNames(Tail(path))

RECURSIVE FirstOccurrences(_, _)
\* the names not in seen, each once, in order of first occurrence
FirstOccurrences(names, seen) ==
  IF names = <<>> THEN <<>>
  ELSE IF Head(names) \in seen THEN FirstOccurrences(Tail(names), seen)
       ELSE <<Head(names)>>
              \o FirstOccurrences(Tail(names), seen \cup {Head(names)})

\* the keys a template should yield: its distinct token names in order of
\* first occurrence
ExpectedKeys(path) ==
  LET names == FirstOccurrences(TokenNames(path), {})
  IN [i \in 1..Len(names) |-> <<names[i]>>]

\* the shape has exactly the keys listed, each a required string
RequiredStrings(schema) ==
  /\ DOMAIN schema.shape = {schema.keys[i] : i \in 1..Len(schema.keys)}
  /\ \A key \in DOMAIN schema.shape : schema.shape[key] = Req(ZString)
  /\ \A i, j \in 1..Len(schema.keys) :
       schema.keys[i] = schema.keys[j] => i = j

\* a token of the template is named by a digit
HasIndexToken(path) ==
  \E i \in 1..Len(TokenNames(path)) : IsIndex(<<TokenNames(path)[i]>>)

\* C15, as stated: the path-parameter shape derived from a template has as
\* keys exactly the distinct {name} tokens of the template, in order of
\* first occurrence, each a required string; a repeated token yields one
\* parameter.
C15_KeysAreTokensInOrder ==
  client # NoValue =>
    \A key \in DOMAIN client :
      WellFormed(registry[key].path) =>
        /\ client[key].pathParametersSchema.keys
             = ExpectedKeys(registry[key].path)
        /\ RequiredStrings(client[key].pathParametersSchema)

\* C15, amended: the keys are exactly the distinct tokens, each once and a
\* required string; they are in order of first occurrence when no token is
\* named by an array index.
C15_KeysAreTokensInOrderUnlessIndices ==
  client # NoValue =>
    \A key \in DOMAIN client :
      WellFormed(registry[key].path) =>
        /\ DOMAIN client[key].pathParametersSchema.shape
             = {<<name>> : name \in Placeholders(registry[key].path)}
        /\ RequiredStrings(client[key].pathParametersSchema)
        /\ ~HasIndexToken(registry[key].path) =>
             client[key].pathParametersSchema.keys
               = ExpectedKeys(registry[key].path)

\* a client built for the template /{hero}/{id}/{hero} has the path
\* parameters hero and id, in this order
C15_Witness ==
  /\ client # NoValue
  /\ "custom" \in DOMAIN client
  /\ registry["custom"].path
       = <<"/", "{", "hero", "}", "/", "{", "id", "}", "/", "{", "hero", "}">>
  /\ client["custom"].pathParametersSchema.keys = <<(<<"hero">>), (<<"id">>)>>

\* C17: defining an endpoint succeeds for every well-formed path template
\* and fails for a template with an unterminated "{".
C17_MalformedTemplateRejected ==
  defineArgs # NoValue =>
    /\ WellFormed(defineArgs.path) => defineOutcome.kind = "returned"
    /\ Unterminated(defineArgs.path) => defineOutcome.kind = "threw"

\* C20: the built client has exactly one function per key of the endpoints
\* map, and each function carries its key as endpointName, the description
\* and the request and response schemas of that key's contract, and a
\* path-parameter schema derived from that contract's path template.
C20_CatalogMatchesRegistry ==
  client # NoValue =>
    /\ DOMAIN client = DOMAIN registry
    /\ \A key \in DOMAIN registry :
         /\ client[key].endpointName = key
         /\ client[key].description = registry[key].description
         /\ client[key].requestSchema = registry[key].requestSchema
         /\ client[key].responseSchema = registry[key].responseSchema
         /\ client[key].endpoint = registry[key]
         /\ client[key].pathParametersSchema
              = zodPathParametersSchema(registry[key].path)

\* a client built from the registry and one more endpoint, with the five
\* functions and the path parameter of addRescue
C20_Witness ==
  /\ client # NoValue
  /\ DOMAIN client = EndpointNames \cup {"custom"}
  /\ client["custom"].description = StrA
  /\ client["addRescue"].endpointName = "addRescue"
  /\ client["addRescue"].requestSchema = AddRescueRequestSchema
  /\ DOMAIN client["addRescue"].pathParametersSchema.shape = {<<"hero">>}

(***************************************************************************)
(* Properties of the lambdas and their table (SpecTable).                  *)
(***************************************************************************)
\* the table before the first invocation
InitialTable == IF invs = <<>> THEN table ELSE invs[1].before

\* every invocation is over
AllDone == \A i \in 1..Len(invs) : invs[i].pc = "done"

\* invocation i began when all earlier ones were over
AfterTheOthers(i) == invs[i].prior = i - 1

\* on an empty table addHero was invoked with body b, and after it
\* searchHeroes, without filter or filtering on attributes of b, which is
\* over; no other invocation began before that
AddThenList(b) ==
  /\ Len(invs) >= 2
  /\ InitialTable = {}
  /\ invs[1].op = "addHero"
  /\ invs[1].body = b
  /\ invs[2].op = "searchHeroes"
  /\ \A k \in DOMAIN invs[2].body.f : Field(b, k) = invs[2].body.f[k]
  /\ AfterTheOthers(2)
  /\ invs[2].pc = "done"
  /\ \A i \in 3..Len(invs) : invs[i].prior >= 2

\* the collection the list invocation returned
Listed == invs[2].result.data.f.heroes.a

\* C21, as stated: starting from an empty table, adding { name: "A",
\* rescues: 0 } and then listing returns a collection of exactly one entry,
\* which matches what was added.
C21_AddThenListScenario ==
  AddThenList(NameAndRescues) =>
    /\ Len(Listed) = 1
    /\ Field(Listed[1], "name") = StrA
    /\ Field(Listed[1], "rescues") = Num(0)

\* the body satisfies the request schema of addHero and has no other property
IsAddHeroRequest(b) ==
  /\ ZodAccepts(AddHeroRequestSchema, b)
  /\ DOMAIN b.f \subseteq DOMAIN AddHeroRequestSchema.shape

\* C21, amended: the same for every added body that is a request of addHero;
\* the entry is the body with rescues: 0.
C21_AddValidHeroThenList ==
  \A b \in {c.body : c \in {x \in Calls : x.op = "addHero"}} :
    (AddThenList(b) /\ IsAddHeroRequest(b)) =>
      Listed = <<Obj([rescues |-> Num(0)] @@ b.f)>>

\* the hero A was added to the empty table and then listed by name
C21_Witness ==
  /\ AddThenList(HeroA)
  /\ invs[1].result.statusCode = Num(200)
  /\ invs[2].body = Obj([k \in {"name"} |-> StrA])
  /\ Len(Listed) = 1
  /\ Field(Listed[1], "name") = StrA

\* the last invocation repeated the POST invocation before it, with the same
\* input, after that one was over, and is over itself
RetriedPost ==
  /\ Len(invs) >= 2
  /\ AllDone
  /\ AfterTheOthers(Len(invs))
  /\ invs[Len(invs)].op \in {"addHero", "addRescue"}
  /\ invs[Len(invs)].op = invs[Len(invs) - 1].op
  /\ invs[Len(invs)].body = invs[Len(invs) - 1].body

\* C22: invoking addHero or addRescue a second time with the same input
\* leaves the table as it was after the first invocation.
C22_RetryLeavesTableUnchanged ==
  RetriedPost => table = invs[Len(invs)].before

\* the invocations that called getDynamoClient
GotClient == {i \in 1..Len(invs) : invs[i].ddb # Undefined}

\* C23: in each process the client is constructed at most once, and every
\* call of getDynamoClient returns that one instance.
C23_ClientConstructedOnce ==
  /\ \A process \in Lambdas : constructed[process] <= 1
  /\ \A i \in GotClient :
       /\ constructed[invs[i].op] = 1
       /\ invs[i].ddb = cachedDynamoClient[invs[i].op]
  /\ \A i, j \in GotClient : invs[i].op = invs[j].op => invs[i].ddb = invs[j].ddb

\* two invocations of one lambda, the second beginning while the first
\* awaits the table, hold the same client
C23_Witness ==
  /\ Len(invs) = 2
  /\ invs[1].op = invs[2].op
  /\ invs[2].prior = 0
  /\ invs[1].ddb # Undefined
  /\ invs[1].ddb = invs[2].ddb
  /\ constructed[invs[1].op] = 1

\* the HERO records of the table
HeroRecords == {x \in table : x.pk = Str(<<"HERO">>)}

\* the addHero invocations for the name n
AddHeroOf(n) ==
  {i \in 1..Len(invs) :
     invs[i].op = "addHero" /\ Field(invs[i].body, "name") = n}

\* the record of the table is the one invocation i wrote
WrittenBy(x, i) ==
  /\ x.createdAt = invs[i].startedAt
  /\ \A k \in DOMAIN invs[i].body.f \ {"rescues"} : x[k] = invs[i].body.f[k]

\* C25: the table holds at most one HERO record per hero name; among the
\* addHero invocations for a name that was not stored before, exactly one
\* returns status 200 and every other returns status 400, the stored record
\* being the one the former wrote.
C25_OneHeroPerName ==
  /\ \A x, y \in HeroRecords : x.name = y.name => x = y
  /\ AllDone =>
       \A n \in {StrA, Str(<<"B">>)} :
         (/\ AddHeroOf(n) # {}
          /\ \A x \in InitialTable : x.pk = Str(<<"HERO">>) => x.name # n)
           => \E w \in AddHeroOf(n) :
                /\ invs[w].result.statusCode = Num(200)
                /\ \A i \in AddHeroOf(n) \ {w} :
                     invs[i].result.statusCode = Num(400)
                /\ \E x \in HeroRecords : x.name = n /\ WrittenBy(x, w)

\* the RESCUE records of the table for the hero named n
RescueRecords(n) ==
  {x \in table : x.pk = Str(<<"RESCUE">>) /\ Field(Obj(x), "hero") = n}

\* C26: when no invocation is under way, the rescues counter of every
\* stored hero record equals the number of stored rescue records for that
\* hero.
C26_CounterMatchesRescues ==
  AllDone =>
    \A x \in HeroRecords : x.rescues.n = Cardinality(RescueRecords(x.sk))

\* C27: when addRescue returns its failure response, the table is as it was
\* when the invocation began: no rescue record was written and no counter
\* was modified.
C27_FailedAddRescueLeavesTable ==
  (/\ Len(invs) >= 1
   /\ AllDone
   /\ AfterTheOthers(Len(invs))
   /\ invs[Len(invs)].op = "addRescue"
   /\ invs[Len(invs)].result.statusCode = Num(400)
   /\ Field(invs[Len(invs)].result.data, "success") = Bool(FALSE))
    => table = invs[Len(invs)].before

(***************************************************************************)
(* Properties of the Lambda construct (SpecConstruct).                     *)
(***************************************************************************)
\* the declarations of the props
Declared == IF Truthy(props.dynamos) THEN props.dynamos.f ELSE <<>>

\* the actions the function was granted on a table
GrantedOn(tbl) == {g.action : g \in {x \in fn.grants : x.resource = tbl}}

\* the actions the declarations of the props name for a table
DeclaredOn(tbl) ==
  UNION {{g.action : g \in Granted(Declared[i])} :
           i \in {j \in DOMAIN Declared : Declared[j].table = tbl}}

\* C29: once the construct is through its constructor, its function holds
\* for every declared table exactly the grant its access names and, under
\* every declaration key, an environment variable with the table's name;
\* the functions of the routes listHeroRescues and searchHeroes hold no
\* write grant.
C29_GrantsMatchDeclarations ==
  cdkPc \in {"constructed", "threw"} =>
    /\ cdkPc = "constructed"
    /\ \A tbl \in Tables : GrantedOn(tbl) = DeclaredOn(tbl)
    /\ \A i \in DOMAIN Declared :
         /\ Declared[i].key \in DOMAIN fn.environment
         /\ fn.environment[Declared[i].key] = tableName(Declared[i].table)
    /\ \A tbl \in Tables :
         (props \in LambdaEndpoints(tbl)
            /\ props.entry \in {"listHeroRescues", "searchHeroes"})
           => "write" \notin GrantedOn(tbl)

(***************************************************************************)
(* Properties of the server handler wrapper (SpecServer).                  *)
(***************************************************************************)
\* apiHandler resolved to an output whose data the output schema rejects
DataViolatesOutputSchema ==
  /\ handlerOutcome.kind = "resolved"
  /\ handlerOutcome.out # Undefined
  /\ options.outputSchema # NoSchema
  /\ ~ZodAccepts(options.outputSchema, handlerOutcome.out.data)

\* C2, as stated: with a response schema configured, every handler result
\* whose data violates the schema yields exactly
\* { statusCode: 500, body: "Internal server error" }.
C2_AnyViolationYields500 ==
  DataViolatesOutputSchema => srvResult = Returned(InternalServerError)

\* C2, amended: the same for every handler result whose data is not a string.
C2_NonStringViolationYields500 ==
  (DataViolatesOutputSchema /\ handlerOutcome.out.data.t # "string") =>
    srvResult = Returned(InternalServerError)

\* the handler returned a number with a status and headers of its own
C2_Witness ==
  /\ DataViolatesOutputSchema
  /\ handlerOutcome.out.data = Num(0)
  /\ handlerOutcome.out.statusCode = Num(200)
  /\ handlerOutcome.out.headers # Undefined
  /\ srvResult = Returned(InternalServerError)

\* C3: when the handler invocation throws, the wrapped function does not
\* throw: it returns { statusCode: 500, body: "Unknown error" }.
C3_HandlerThrowYieldsUnknownError ==
  handlerOutcome = Rejected => srvResult = Returned(UnknownError)

\* the handler of a wrapper with schemas threw on a valid body
C3_Witness ==
  /\ handlerOutcome = Rejected
  /\ options.inputSchema # NoSchema
  /\ Truthy(event.body)
  /\ srvResult = Returned(UnknownError)

\* the inbound body is JSON text of a value the request schema rejects
BodyFailsInputSchema ==
  /\ event # NoEvent
  /\ options.inputSchema # NoSchema
  /\ event.body.t = "string"
  /\ JSONparse(event.body.s).ok
  /\ ~ZodAccepts(options.inputSchema, JSONparse(event.body.s).v)

\* C7: with a request schema configured, an inbound body that is present and
\* fails the schema never reaches the handler, and the wrapper returns the
\* generic 500 response.
C7_InvalidBodyNeverReachesHandler ==
  BodyFailsInputSchema =>
    /\ handlerCalls = 0
    /\ srvPc = "done"
    /\ srvResult = Returned(UnknownError)

\* a body {} is rejected by z.object({ name: z.string() })
C7_Witness ==
  /\ BodyFailsInputSchema
  /\ event.body = Str(JSONtext(EmptyObj))
  /\ handlerCalls = 0
  /\ srvResult = Returned(UnknownError)

\* C8: the handlers of the registry are wrapped so that a body violating the
\* request schema of their contract is rejected before the business handler
\* runs, and handler data violating the response schema of their contract is
\* not returned to the caller.
C8_RegistryHandlersEnforceContract ==
  options.name \in EndpointNames =>
    /\ (/\ event # NoEvent
        /\ Truthy(event.body)
        /\ JSONparse(event.body.s).ok
        /\ ~ZodAccepts(endpoints[options.name].requestSchema,
                       JSONparse(event.body.s).v))
         => handlerCalls = 0
    /\ (/\ handlerOutcome.kind = "resolved"
        /\ handlerOutcome.out # Undefined
        /\ ~ZodAccepts(endpoints[options.name].responseSchema,
                       handlerOutcome.out.data))
         => srvResult = Returned(InternalServerError)

\* apiHandler resolved to { data: X, statusCode: 200 } with X matching the
\* output schema
ReturnedMatchingData ==
  /\ handlerOutcome.kind = "resolved"
  /\ handlerOutcome.out # Undefined
  /\ options.outputSchema # NoSchema
  /\ ZodAccepts(options.outputSchema, handlerOutcome.out.data)
  /\ handlerOutcome.out.statusCode = Num(200)

\* the response has status 200 and a body that JSON-decodes to x
DecodesTo(x) ==
  /\ srvResult.kind = "returned"
  /\ srvResult.value.statusCode = Num(200)
  /\ srvResult.value.body.t = "string"
  /\ JSONparse(srvResult.value.body.s) = [ok |-> TRUE, v |-> x]

C11_NoBodyYieldsEmptyObject ==
  (event # NoEvent /\ event.body = Null) =>
    /\ handlerCalls = 1
    /\ handlerArgs # NoArgs
    /\ handlerArgs.body = EmptyObj
    /\ srvResult.kind # "threw"
    /\ handlerOutcome = NotSettled => srvResult = NoResult

\* an event without a body reached the handler of a wrapper with a request
\* schema that rejects {}
C11_Witness ==
  /\ event # NoEvent
  /\ event.body = Null
  /\ options.inputSchema = ZNameObject
  /\ ~ZodAccepts(options.inputSchema, EmptyObj)
  /\ handlerCalls = 1
  /\ handlerArgs.body = EmptyObj

\* the handler resolved to an output that the wrapper turns into the final
\* response: it is not undefined and its data passed the output validation
OutputPassedOn ==
  /\ handlerOutcome.kind = "resolved"
  /\ handlerOutcome.out # Undefined
  /\ srvResult # Returned(InternalServerError)

\* C12: the status of the final response is the statusCode the handler
\* returned whenever the handler specified one, and 200 when it specified
\* none.
C12_StatusIsHandlersOrDefault ==
  OutputPassedOn =>
    srvResult.value.statusCode =
      IF handlerOutcome.out.statusCode # Undefined
      THEN handlerOutcome.out.statusCode
      ELSE Num(200)

\* the mapping the handler should get for a mapping of the event
Normalized(m) == IF m \in {Null, Undefined} THEN EmptyObj ELSE m

\* C24: the argument bundle passed to the handler has headers, path
\* parameters and query parameters that are mappings, an absent one being
\* the empty mapping and never undefined or null, and method and path taken
\* from the event.
C24_HandlerArgsNormalized ==
  handlerArgs # NoArgs =>
    /\ handlerArgs.headers.t = "object"
    /\ handlerArgs.pathParameters.t = "object"
    /\ handlerArgs.queryStringParameters.t = "object"
    /\ handlerArgs.headers = Normalized(event.headers)
    /\ handlerArgs.pathParameters = Normalized(event.pathParameters)
    /\ handlerArgs.queryStringParameters
         = Normalized(event.queryStringParameters)
    /\ handlerArgs.method = event.httpMethod
    /\ handlerArgs.path = event.path

\* an event with no headers, no path parameters and no query parameters
\* reached the handler
C24_Witness ==
  /\ handlerArgs # NoArgs
  /\ event.headers = Null
  /\ event.pathParameters = Null
  /\ event.queryStringParameters = Null
  /\ handlerArgs.headers = EmptyObj
  /\ handlerArgs.queryStringParameters = EmptyObj
  /\ handlerArgs.method = "POST"

\* the body of the event is a string that is the JSON text of no value
BodyIsNotJson ==
  /\ event # NoEvent
  /\ event.body.t = "string"
  /\ \A v \in JsonValues : JSONtext(v) # event.body.s

\* C28, as stated: for an event whose body is present but is not valid JSON
\* the wrapper never invokes the handler and returns
\* { statusCode: 500, body: "Unknown error" }.
C28_InvalidJsonYieldsUnknownError ==
  BodyIsNotJson =>
    /\ handlerCalls = 0
    /\ srvPc = "done"
    /\ srvResult = Returned(UnknownError)

\* C28, amended: the same for a body that is not the empty string; the empty
\* string is taken as no body, the handler being invoked with {}.
C28_NonEmptyInvalidJsonYieldsUnknownError ==
  /\ (BodyIsNotJson /\ event.body.s # <<>>) =>
       /\ handlerCalls = 0
       /\ srvPc = "done"
       /\ srvResult = Returned(UnknownError)
  /\ (BodyIsNotJson /\ event.body.s = <<>>) =>
       /\ handlerCalls = 1
       /\ handlerArgs.body = EmptyObj

\* a wrapper without schemas got the body "{"
C28_Witness ==
  /\ BodyIsNotJson
  /\ event.body = NotJson
  /\ options.inputSchema = NoSchema
  /\ handlerCalls = 0
  /\ srvResult = Returned(UnknownError)

\* C10: every response the wrapped function returns has a body that is a
\* string and a statusCode that is a number.
C10_BodyStringStatusNumber ==
  srvResult.kind = "returned" =>
    /\ srvResult.value.body.t = "string"
    /\ srvResult.value.statusCode.t = "number"

====
